---- MODULE Spec2Model ----
(***************************************************************************)
(* A model of the crosis4furrets client: the session object (token, user,  *)
(* repl, channels, connected, persisting), the transport it drives         *)
(* (open / openChannel / send / request / onCommand / close / destroy),    *)
(* and the asynchronous methods attached to it.  Every await of the source *)
(* is a point where a call is suspended; the step that resumes it runs the *)
(* code up to the next await, as the single-threaded event loop does.      *)
(***************************************************************************)
EXTENDS Integers, Sequences, FiniteSets, TLC

(* ------------------------------ bounds -------------------------------- *)

\* number of method invocations made on the session in one behaviour
MaxCalls == 3

\* number of method invocations in a behaviour that connects, closes and
\* connects again
CallCap == 5

\* number of callers that may have a call in flight at the same time
NumTasks == 2

Tasks == 1..NumTasks

\* number of method invocations in one behaviour of GatedSpec, whose
\* methods are many
MaxGated == 2

\* number of driver invocations in one behaviour of the driver specifications
MaxDrivers == 1

\* number of events (output chunks, hints, stdin data) delivered in one behaviour
MaxEvents == 4

\* number of pieces a text handed to cleanTerminalOutput on its own is made of
MaxPieces == 7

\* the largest response status of the metadata endpoint
MaxStatus == 599

\* number of code units of a string, and of bytes of a buffer, handed to write()
MaxChars == 3

(* --------------------------- value domains ---------------------------- *)

\* credentials handed to the constructor: the empty string and a cookie
Tokens == {"", "connect.sid"}

\* the `name` argument of channel() when it is left out
NoName == ""

\* the services and instance names channel() is called with directly
ChannelServices == {"files", "gcsfiles"}

ChannelNames == {NoName, "files"}

\* every index the channels object is read or written at
ChanKeys == {"chan0", "files", "gcsfiles", "shellrun2", "shell", "packager3"}

\* the error field of a response: absent (falsy) or a message of the remote
RemoteErrors == {"", "ENOENT"}

\* the error an openChannel callback may carry
OpenErrors == {"EOPEN"}

\* a response of the remote to channel.request()
Responses == [ok : BOOLEAN, error : RemoteErrors, body : BOOLEAN]

\* this.repl before ReplById has answered
NoRepl == [set |-> FALSE, runner |-> FALSE, packager3 |-> FALSE]

\* the workspace descriptors ReplById may answer with
Repls == [set : {TRUE}, runner : BOOLEAN, packager3 : BOOLEAN]

VARIABLES
    constructed,  \* "none" before new Client(), "ok" after, "failed" when it threw
    token,        \* this.token
    ignore,       \* this.ignore, the .gitignore override given at construction
    user,         \* this.user is set
    repl,         \* this.repl
    channels,     \* this.channels: key -> handle, 0 when the key is absent
    connected,    \* this.connected
    persisting,   \* this.persisting
    tasks,        \* per caller: the call in flight and the await it is suspended at
    last,         \* the most recently settled call: its method and its outcome
    calls,        \* number of method invocations so far
    net,          \* requests made to the login and GraphQL collaborators
    client,       \* calls received by the transport: open, close, destroy
    fx,           \* calls received by the transport's channels, in order
    nextH,        \* the next handle the transport hands out
    issued,       \* key -> handles the transport delivered for openChannel of that key
    returned,     \* key -> the handles channel() returned for that key, in order
    overlap,      \* key -> channel() was entered for it while an open of it was pending
    listeners,    \* the callbacks handed to onCommand, in order, each with its closure
    lastIndex,    \* shellPrompt.lastIndex, the state of the module's one regular expression
    stdout,       \* what was written to this.streams.stdout, in order
    wired,        \* the channels of the 'data' handlers put on this.streams.stdin, in order
    uncaught,     \* number of exceptions thrown out of a callback the transport calls
    delivered,    \* number of events the environment has delivered so far
    text,         \* the argument of cleanTerminalOutput when it is applied on its own
    cleaned,      \* its result, once computed
    fetched,      \* what fetch() does when govalMetadata is applied on its own
    metadata,     \* the outcome of govalMetadata, once it has settled
    file,         \* the argument of write() when write and read are applied on their own
    remote,       \* the content the remote stores under the path
    wrote,        \* the outcome of write(), once it has settled
    readBack,     \* the encoding asked of read() and its outcome, once it has settled
    shell,        \* the closure of shellStop: its channel, lastLine, and the events it got
    waiter        \* the closure of cmdTimeout: its promise, promiseDidFinish and timer

vars == <<constructed, token, ignore, user, repl, channels, connected, persisting,
          tasks, last, calls, net, client, fx, nextH, issued, returned, overlap,
          listeners, lastIndex, stdout, wired, uncaught, delivered, text, cleaned,
          fetched, metadata, file, remote, wrote, readBack, shell, waiter>>

\* the state of the functions that are applied on their own
utilVars == <<fetched, metadata, file, remote, wrote, readBack, shell, waiter>>

\* the state of shellStop and of cmdTimeout
stopVars == <<shell, waiter>>

\* the state of write() and read() applied on their own
fileVars == <<file, remote, wrote, readBack>>

\* the state of the terminal drivers and of the output cleaning
execVars == <<listeners, lastIndex, stdout, wired, uncaught, delivered, text, cleaned,
              utilVars>>

sessionVars == <<constructed, token, ignore, user, repl, channels, connected, persisting>>

(* --------------------------- terminal text ---------------------------- *)

\* A text is a sequence of characters.  The characters the model uses, by
\* the classes the source's regular expressions and trim() put them in:
LF == "\n"

CR == "\r"

SP == " "

\* the escape character \x1b
ESC == "ESC"

Digits == {"0", "1"}

LowerCase == {"a", "c", "e", "h", "i", "m", "n", "o", "r", "t", "x"}

UpperCase == {"H"}

\* [\w\d-] of shellPrompt
WordChars == LowerCase \cup UpperCase \cup Digits \cup {"_", "-"}

\* \s of shellPrompt, and what String.prototype.trim removes
WhiteSpace == {SP, LF, CR}

\* where $ matches under the m flag, besides the end of the text
LineTerminators == {LF, CR}

\* [@-Z\\-_], the one-character escape sequences
EscSingle == UpperCase \cup {"@", "\\", "]", "^", "_"}

\* [0-?], the parameter bytes of a control sequence
CsiParams == Digits \cup {":", ";", "<", "=", ">", "?"}

\* [ -/], its intermediate bytes
CsiInter == {SP, "!", "#", "$", "%", "&", "(", ")", "*", "+", ",", "-", ".", "/"}

\* [@-~], its final byte
CsiFinal == LowerCase \cup UpperCase \cup {"@", "[", "\\", "]", "^", "_", "{", "|", "}", "~"}

Least(S) == CHOOSE x \in S : \A y \in S : x <= y

Greatest(S) == CHOOSE x \in S : \A y \in S : y <= x

\* the last index of the run of characters of class cls that starts at
\* index from of s; from - 1 when the run is empty
RunEnd(s, from, cls) ==
    Greatest({j \in (from - 1)..Len(s) : \A k \in from..j : s[k] \in cls})

\* String.prototype.trim
Trim(s) ==
    LET keep == {i \in 1..Len(s) : s[i] \notin WhiteSpace}
    IN IF keep = {} THEN <<>> ELSE SubSeq(s, Least(keep), Greatest(keep))

\* String.prototype.split with a one-character separator
RECURSIVE Split(_, _)
Split(s, c) ==
    LET at == {i \in 1..Len(s) : s[i] = c}
    IN IF at = {} THEN <<s>>
       ELSE <<SubSeq(s, 1, Least(at) - 1)>> \o Split(SubSeq(s, Least(at) + 1, Len(s)), c)

\* Array.prototype.join with a one-character separator
RECURSIVE Join(_, _)
Join(parts, c) ==
    IF parts = <<>> THEN <<>>
    ELSE IF Len(parts) = 1 THEN parts[1]
    ELSE parts[1] \o <<c>> \o Join(Tail(parts), c)

\* the length of the match of /\x1b\[\d+m/ at the start of s, 0 when there is none
ColourEnd(s) ==
    IF Len(s) >= 4 /\ s[1] = ESC /\ s[2] = "[" /\ s[3] \in Digits
    THEN LET d == RunEnd(s, 3, Digits)
         IN IF d < Len(s) /\ s[d + 1] = "m" THEN d + 1 ELSE 0
    ELSE 0

\* .replace(/\x1b\[\d+m/g, '')
RECURSIVE StripColour(_)
StripColour(s) ==
    IF s = <<>> THEN <<>>
    ELSE IF ColourEnd(s) > 0 THEN StripColour(SubSeq(s, ColourEnd(s) + 1, Len(s)))
    ELSE <<Head(s)>> \o StripColour(Tail(s))

\* the length of the match of /\x1B(?:[@-Z\\-_]|\[[0-?]*[ -/]*[@-~])/ at the
\* start of s, 0 when there is none
AnsiEnd(s) ==
    IF Len(s) >= 2 /\ s[1] = ESC
    THEN IF s[2] \in EscSingle THEN 2
         ELSE IF s[2] = "["
         THEN LET p == RunEnd(s, 3, CsiParams)
                  q == RunEnd(s, p + 1, CsiInter)
              IN IF q < Len(s) /\ s[q + 1] \in CsiFinal THEN q + 1 ELSE 0
         ELSE 0
    ELSE 0

\* cmd.output.replace(/\x1B(?:[@-Z\\-_]|\[[0-?]*[ -/]*[@-~])/gm, '')
RECURSIVE StripAnsi(_)
StripAnsi(s) ==
    IF s = <<>> THEN <<>>
    ELSE IF AnsiEnd(s) > 0 THEN StripAnsi(SubSeq(s, AnsiEnd(s) + 1, Len(s)))
    ELSE <<Head(s)>> \o StripAnsi(Tail(s))

\* .slice(1, -1) that keeps the first line
SliceInnerKeepsFirst(lines) ==
    IF Len(lines) < 2 THEN <<>> ELSE SubSeq(lines, 1, Len(lines) - 1)

\* .slice(1, -1): the lines but the first and the last
SliceInner(lines) ==
    IF Len(lines) < 3 THEN <<>> ELSE SubSeq(lines, 2, Len(lines) - 1)

\* cleanTerminalOutput
cleanTerminalOutput(output) ==
    LET trimmed == Trim(Join(SliceInner(Split(StripColour(Trim(output)), LF)), LF))
    IN IF Len(trimmed) = 0 THEN <<>>
       ELSE Join(Tail(Split(trimmed, CR)), CR)

\* the index at which a match of /~\/[\w\d-]+\$\s$/m that starts at index i of
\* s ends, 0 when there is none
PromptEndAt(s, i) ==
    IF i + 4 <= Len(s) /\ s[i] = "~" /\ s[i + 1] = "/" /\ s[i + 2] \in WordChars
    THEN LET w == RunEnd(s, i + 2, WordChars)
         IN IF /\ w + 2 <= Len(s)
               /\ s[w + 1] = "$"
               /\ s[w + 2] \in WhiteSpace
               /\ (w + 2 = Len(s) \/ s[w + 3] \in LineTerminators)
            THEN w + 2 ELSE 0
    ELSE 0

\* shellPrompt.test(s) with shellPrompt.lastIndex = li: the pattern has the g
\* flag, so the search starts at lastIndex, a match moves lastIndex to its
\* end and a failure resets it to 0
PromptTest(s, li) ==
    LET starts == {i \in (li + 1)..Len(s) : PromptEndAt(s, i) > 0}
    IN IF li > Len(s) \/ starts = {}
       THEN [found |-> FALSE, lastIndex |-> 0]
       ELSE [found |-> TRUE, lastIndex |-> PromptEndAt(s, Least(starts))]

\* cleaned before cleanTerminalOutput has been applied to text
NotCleaned == [done |-> FALSE, out |-> <<>>]

\* a is a contiguous part of b
Contains(b, a) ==
    \E i \in 0..(Len(b) - Len(a)) : SubSeq(b, i + 1, i + Len(a)) = a

(* ------------------------------ outcomes ------------------------------ *)

Ret(v) == [kind |-> "return", val |-> v, h |-> 0]

RetH(h) == [kind |-> "return", val |-> "channel", h |-> h]

Throw(m) == [kind |-> "throw", val |-> m, h |-> 0]

NoOutcome == [kind |-> "none", val |-> "", h |-> 0]

Idle == [pc |-> "idle", op |-> "none", svc |-> "", name |-> "", arg |-> 0, n |-> 0, h |-> 0]

NoCall == [op |-> "none", res |-> NoOutcome]

\* fetched when govalMetadata is not applied on its own
NoFetch == [kind |-> "none", status |-> 0, json |-> FALSE]

\* metadata before govalMetadata has settled
NotSettled == [done |-> FALSE, res |-> NoOutcome]

\* file when write() is not applied on its own
NoFile == [kind |-> "none", data |-> <<>>]

\* remote before anything is written under the path
NoContent == [present |-> FALSE, content |-> <<>>]

\* shell before shellStop is called
NoShell == [on |-> FALSE, h |-> 0, lastLine |-> <<>>, got |-> <<>>]

\* waiter before cmdTimeout is called
NoWaiter == [on |-> FALSE, state |-> "none", value |-> "", finished |-> FALSE,
             timer |-> "none", settles |-> 0, got |-> <<>>]

\* readBack before read() has settled
NotRead == [done |-> FALSE, enc |-> "", kind |-> "none", data |-> <<>>]

Settled(t, op, res) == [op |-> op, res |-> res]

(* --------------------------- effects on fx ---------------------------- *)

OpenChannelFx(svc, name) == [type |-> "openChannel", h |-> 0, what |-> svc, name |-> name]

SendFx(h, what) == [type |-> "send", h |-> h, what |-> what, name |-> NoName]

RequestFx(h, what) == [type |-> "request", h |-> h, what |-> what, name |-> NoName]

OnCommandFx(h, what) == [type |-> "onCommand", h |-> h, what |-> what, name |-> NoName]

SetTimeoutFx(what) == [type |-> "setTimeout", h |-> 0, what |-> what, name |-> NoName]

StdinOnFx(h) == [type |-> "stdinOn", h |-> h, what |-> "data", name |-> NoName]

\* the callback of an openChannel request delivers a channel, or an error
OpenedFx(h, svc, name) == [type |-> "opened", h |-> h, what |-> svc, name |-> name]

OpenErrorFx(svc, name) == [type |-> "openError", h |-> 0, what |-> svc, name |-> name]

\* the entries of fx that are calls made by the client
IsCall(e) == e.type \notin {"opened", "openError"}

ClientCalls(f) == SelectSeq(f, IsCall)

\* a registry that files every handle under its service
CacheKeyService(svc, name) == svc

\* const id = name || service
CacheKey(svc, name) == IF name # NoName THEN name ELSE svc

\* number of openChannel requests the transport received for a cache key
OpenRequests(k) ==
    Cardinality({i \in 1..Len(fx) :
        fx[i].type = "openChannel" /\ CacheKey(fx[i].what, fx[i].name) = k})

\* the answers the transport gave to the openChannel requests for a cache key
OpenAnswers(k) ==
    {i \in 1..Len(fx) :
        fx[i].type \in {"opened", "openError"} /\ CacheKey(fx[i].what, fx[i].name) = k}

\* the tasks suspended on an openChannel request for a cache key
Opening(k) ==
    {t \in Tasks : tasks[t].pc = "awaitChan" /\ CacheKey(tasks[t].svc, tasks[t].name) = k}

\* a method can be invoked on a constructed session by a caller that has no
\* call in flight; callers are interchangeable, so an invocation is made by
\* the first idle one
CanCall(t) ==
    /\ constructed = "ok"
    /\ tasks[t].pc = "idle"
    /\ \A u \in Tasks : u < t => tasks[u].pc # "idle"
    /\ calls < CallCap

(* ------------------------------- Init --------------------------------- *)

Init ==
    /\ constructed = "none"
    /\ token = ""
    /\ ignore = ""
    /\ user = FALSE
    /\ repl = NoRepl
    /\ channels = [k \in ChanKeys |-> 0]
    /\ connected = FALSE
    /\ persisting = FALSE
    /\ tasks = [t \in Tasks |-> Idle]
    /\ last = NoCall
    /\ calls = 0
    /\ net = [test |-> 0, user |-> 0, repl |-> 0]
    /\ client = [open |-> 0, close |-> 0, destroy |-> 0]
    /\ fx = <<>>
    /\ nextH = 1
    /\ issued = [k \in ChanKeys |-> {}]
    /\ returned = [k \in ChanKeys |-> <<>>]
    /\ overlap = [k \in ChanKeys |-> FALSE]
    /\ listeners = <<>>
    /\ lastIndex = 0
    /\ stdout = <<>>
    /\ wired = <<>>
    /\ uncaught = 0
    /\ delivered = 0
    /\ text = <<>>
    /\ cleaned = NotCleaned
    /\ fetched = NoFetch
    /\ metadata = NotSettled
    /\ file = NoFile
    /\ remote = NoContent
    /\ wrote = NoOutcome
    /\ readBack = NotRead
    /\ shell = NoShell
    /\ waiter = NoWaiter

(* ---------------------------- constructor ----------------------------- *)

\* the constructor with its check of the token left out
TokenMissingNever(tok) == FALSE

\* if (!token) throw new Error('UserError: Missing token parameter.')
TokenMissing(tok) == tok = ""

\* new Client({ token, replId, ignore })
Construct(tok, ign) ==
    /\ constructed = "none"
    /\ token' = tok
    /\ IF TokenMissing(tok)
       THEN /\ constructed' = "failed"
            /\ last' = Settled(0, "new", Throw("UserError: Missing token parameter."))
            /\ UNCHANGED ignore
       ELSE /\ constructed' = "ok"
            /\ ignore' = ign
            /\ last' = Settled(0, "new", Ret("client"))
    /\ UNCHANGED <<user, repl, channels, connected, persisting, tasks, calls, net,
                   client, fx, nextH, issued, returned, overlap>>
    /\ UNCHANGED execVars

(* ------------------------------ connect ------------------------------- *)

\* the code of connect() that follows the token test and the two queries:
\* the handshake is started and the call suspends until the open callback
StartOpen(t) ==
    /\ client' = [client EXCEPT !.open = @ + 1]
    /\ tasks' = [tasks EXCEPT ![t].pc = "awaitOpen"]

\* the code of connect() from `if (!this.repl)` on, with the descriptor r in hand
AfterUser(t, haveRepl) ==
    IF ~haveRepl
    THEN /\ net' = [net EXCEPT !.repl = @ + 1]
         /\ tasks' = [tasks EXCEPT ![t].pc = "awaitRepl"]
         /\ UNCHANGED client
    ELSE /\ StartOpen(t)
         /\ UNCHANGED net

\* connect() that never finds a cached user
UserCachedNever == FALSE

\* if (!this.user) { ... this.user = data.currentUser }
UserCached == user

\* connect(): const { success } = await test(decodeURIComponent(this.token))
ConnectCall(t) ==
    /\ CanCall(t)
    /\ calls' = calls + 1
    /\ net' = [net EXCEPT !.test = @ + 1]
    /\ tasks' = [tasks EXCEPT ![t] = [Idle EXCEPT !.pc = "awaitTest", !.op = "connect"]]
    /\ UNCHANGED <<sessionVars, last, client, fx, nextH, issued, returned, overlap>>
    /\ UNCHANGED execVars

\* the token test answers: throw on failure, else query the user unless cached
TestReturn(t, success) ==
    /\ tasks[t].pc = "awaitTest"
    /\ IF ~success
       THEN /\ tasks' = [tasks EXCEPT ![t] = Idle]
            /\ last' = Settled(t, "connect", Throw("UserError: Invalid token"))
            /\ UNCHANGED <<net, client>>
       ELSE /\ UNCHANGED last
            /\ IF ~UserCached
               THEN /\ net' = [net EXCEPT !.user = @ + 1]
                    /\ tasks' = [tasks EXCEPT ![t].pc = "awaitUser"]
                    /\ UNCHANGED client
               ELSE AfterUser(t, repl.set)
    /\ UNCHANGED <<sessionVars, calls, fx, nextH, issued, returned, overlap>>
    /\ UNCHANGED execVars

\* the CurrentUser query answers: null throws, else this.user is set
UserReturn(t, found) ==
    /\ tasks[t].pc = "awaitUser"
    /\ IF ~found
       THEN /\ tasks' = [tasks EXCEPT ![t] = Idle]
            /\ last' = Settled(t, "connect", Throw("UserError: Invalid token."))
            /\ UNCHANGED <<user, net, client>>
       ELSE /\ user' = TRUE
            /\ UNCHANGED last
            /\ AfterUser(t, repl.set)
    /\ UNCHANGED <<constructed, token, ignore, repl, channels, connected, persisting,
                   calls, fx, nextH, issued, returned, overlap>>
    /\ UNCHANGED execVars

\* the ReplById query answers: null throws, else this.repl is set and the
\* transport is opened
ReplReturn(t, found, r) ==
    /\ tasks[t].pc = "awaitRepl"
    /\ IF ~found
       THEN /\ tasks' = [tasks EXCEPT ![t] = Idle]
            /\ last' = Settled(t, "connect", Throw("UserError: Invalid repl."))
            /\ UNCHANGED <<repl, client>>
       ELSE /\ repl' = r
            /\ UNCHANGED last
            /\ StartOpen(t)
    /\ UNCHANGED <<constructed, token, ignore, user, channels, connected, persisting,
                   calls, net, fx, nextH, issued, returned, overlap>>
    /\ UNCHANGED execVars

\* the open callback with `if (!channel) return` left out
OpenCallbackUnchecked(t, withChannel) ==
    /\ tasks[t].pc = "awaitOpen"
    /\ channels' = [channels EXCEPT !["chan0"] = IF withChannel THEN nextH ELSE @]
    /\ connected' = TRUE
    /\ nextH' = IF withChannel THEN nextH + 1 ELSE nextH
    /\ tasks' = [tasks EXCEPT ![t] = Idle]
    /\ last' = [op |-> "connect", res |-> [kind |-> "return", val |-> "void", h |-> 0]]
    /\ UNCHANGED <<constructed, token, ignore, user, repl, persisting, calls, net,
                   client, fx, issued, returned, overlap>>
    /\ UNCHANGED execVars

\* the callback handed to client.open(): ({ channel }) => { ... }
OpenCallback(t, withChannel) ==
    /\ tasks[t].pc = "awaitOpen"
    /\ IF ~withChannel
       THEN UNCHANGED <<channels, connected, tasks, last, nextH>>
       ELSE /\ channels' = [channels EXCEPT !["chan0"] = nextH]
            /\ connected' = TRUE
            /\ nextH' = nextH + 1
            /\ tasks' = [tasks EXCEPT ![t] = Idle]
            /\ last' = Settled(t, "connect", Ret("void"))
    /\ UNCHANGED <<constructed, token, ignore, user, repl, persisting, calls, net,
                   client, fx, issued, returned, overlap>>
    /\ UNCHANGED execVars

\* an error handler that rejects the connect() in progress
UnrecoverableErrorRejects(t) ==
    /\ tasks[t].pc = "awaitOpen"
    /\ uncaught = 0
    /\ uncaught' = 1
    /\ tasks' = [tasks EXCEPT ![t] = Idle]
    /\ last' = Settled(t, "connect", Throw("Error"))
    /\ UNCHANGED <<sessionVars, calls, net, client, fx, nextH, issued, returned, overlap,
                   listeners, lastIndex, stdout, wired, delivered, text, cleaned, utilVars>>

\* the transport reports an unrecoverable error during the handshake: the
\* handler, (error) => { throw new Error(error.message) }, throws into the
\* transport; the promise connect() awaits has no reject
UnrecoverableError(t) ==
    /\ tasks[t].pc = "awaitOpen"
    /\ uncaught = 0
    /\ uncaught' = 1
    /\ UNCHANGED <<sessionVars, tasks, last, calls, net, client, fx, nextH, issued,
                   returned, overlap, listeners, lastIndex, stdout, wired, delivered,
                   text, cleaned, utilVars>>

(* ---------------------- close, disconnect, destroy -------------------- *)

CloseOps == {"close", "disconnect", "destroy"}

NotConnectedMessage ==
    "UserError: Cannot close connection because the client is not connected."

\* close() with its check of the connected flag left out
NotConnectedNever == FALSE

\* if (this.connected === false) throw ...
NotConnected == connected = FALSE

\* close() that tears the transport down and forgets `this.connected = false`
CloseCallKeepsConnected(t, op) ==
    /\ CanCall(t)
    /\ calls' = calls + 1
    /\ IF NotConnected
       THEN /\ last' = Settled(t, op, Throw(NotConnectedMessage))
            /\ UNCHANGED client
       ELSE /\ client' = IF op = "destroy"
                         THEN [client EXCEPT !.destroy = @ + 1]
                         ELSE [client EXCEPT !.close = @ + 1]
            /\ last' = Settled(t, op, Ret("void"))
    /\ UNCHANGED <<constructed, token, ignore, user, repl, channels, connected,
                   persisting, tasks, net, fx, nextH, issued, returned, overlap>>
    /\ UNCHANGED execVars

\* a close that also forgets the channels and the persisting flag
CloseCallResets(t, op) ==
    /\ CanCall(t)
    /\ calls' = calls + 1
    /\ IF NotConnected
       THEN /\ last' = Settled(t, op, Throw(NotConnectedMessage))
            /\ UNCHANGED <<client, connected, channels, persisting>>
       ELSE /\ client' = IF op = "destroy"
                         THEN [client EXCEPT !.destroy = @ + 1]
                         ELSE [client EXCEPT !.close = @ + 1]
            /\ connected' = FALSE
            /\ channels' = [k \in ChanKeys |-> 0]
            /\ persisting' = FALSE
            /\ last' = Settled(t, op, Ret("void"))
    /\ UNCHANGED <<constructed, token, ignore, user, repl, tasks,
                   net, fx, nextH, issued, returned, overlap>>
    /\ UNCHANGED execVars

\* close() / disconnect() call client.close(), destroy() calls client.destroy()
CloseCall(t, op) ==
    /\ CanCall(t)
    /\ calls' = calls + 1
    /\ IF NotConnected
       THEN /\ last' = Settled(t, op, Throw(NotConnectedMessage))
            /\ UNCHANGED <<client, connected>>
       ELSE /\ client' = IF op = "destroy"
                         THEN [client EXCEPT !.destroy = @ + 1]
                         ELSE [client EXCEPT !.close = @ + 1]
            /\ connected' = FALSE
            /\ last' = Settled(t, op, Ret("void"))
    /\ UNCHANGED <<constructed, token, ignore, user, repl, channels, persisting, tasks,
                   net, fx, nextH, issued, returned, overlap>>
    /\ UNCHANGED execVars

(* ------------------------ capability-gated methods -------------------- *)

ExecOps == {"execRun", "execRunStream", "execInterp", "execInterpStream",
            "execShell", "execShellStream", "execStop"}

PackageOps == {"packageInstall", "packageAdd", "packageRemove", "packageList",
               "packageSearch", "packageInfo"}

GatedOps == ExecOps \cup PackageOps

\* the methods that take a timeout (exec drivers) or a verbose flag (packager)
FlagOps == (ExecOps \ {"execStop"}) \cup {"packageInstall", "packageAdd", "packageRemove"}

\* the service each gated method opens its channel for
ServiceOf(op) ==
    IF op \in {"execShell", "execShellStream"} THEN "shell"
    ELSE IF op \in ExecOps \cup {"shellStop"} THEN "shellrun2"
    ELSE "packager3"

\* a gated method with its capability check left out
CapableAlways(op) == TRUE

\* if (!this.repl.lang.runner) return false / if (!this.repl.lang.packager3) return false
Capable(op) == IF op \in ExecOps \cup {"shellStop"} THEN repl.runner ELSE repl.packager3

\* a driver that sends its command before the clear message
DriverFxInputFirst(op, arg, h) ==
    (IF arg = 1 /\ op # "execRun" THEN <<SetTimeoutFx(op)>> ELSE <<>>)
    \o <<OnCommandFx(h, op),
         SendFx(h, IF op \in {"execRun", "execRunStream"} THEN "runMain" ELSE "input"),
         SendFx(h, "clear")>>
    \o (IF op \in {"execRunStream", "execInterpStream", "execShellStream"}
        THEN <<StdinOnFx(h)>> ELSE <<>>)

\* what a driver does with its channel before it waits for events:
\* [setTimeout], onCommand, send clear, send runMain or input, [stdin.on('data')]
DriverFx(op, arg, h) ==
    (IF arg = 1 /\ op # "execRun" THEN <<SetTimeoutFx(op)>> ELSE <<>>)
    \o <<OnCommandFx(h, op), SendFx(h, "clear"),
         SendFx(h, IF op \in {"execRun", "execRunStream"} THEN "runMain" ELSE "input")>>
    \o (IF op \in {"execRunStream", "execInterpStream", "execShellStream"}
        THEN <<StdinOnFx(h)>> ELSE <<>>)

\* execStop that sends the clear message twice
StopFxTwice(h) == <<SendFx(h, "clear"), SendFx(h, "clear")>>

\* execStop: runChan.send({ clear: {} })
StopFx(h) == <<SendFx(h, "clear")>>

\* the names a caller hands to packageAdd / packageRemove, in order
PackageNames == <<"chalk", "lodash">>

\* pkgs[i] in the j-th pass of the loop, where i = n - (j - 1) and pkgs holds
\* the j - 1 promises pushed so far: one of them, or undefined
LookupArg(n, j) == IF n - (j - 1) < j - 1 THEN "[object Promise]" ELSE "undefined"

\* n + 1 packageInfo requests: for (let i = packages.length; i >= 0; i--)
\*     pkgs.push(this.packageInfo(pkgs[i]))
InfoRequests(h, n) ==
    [j \in 1..(n + 1) |->
        [RequestFx(h, "packageInfo") EXCEPT !.name = LookupArg(n, j)]]

(* -------------------------- terminal drivers -------------------------- *)

BufferedOps == {"execRun", "execInterp", "execShell"}

StreamOps == {"execRunStream", "execInterpStream", "execShellStream"}

\* the drivers that count with cmd.output.includes(runPrompt), runPrompt = ''
RunOps == {"execRun", "execRunStream"}

\* the exec argument the drivers are called with: echo hi
Command == <<"e", "c", "h", "o", SP, "h", "i">>

\* the command as the terminal echoes it
EchoChunk == Command \o <<CR, LF>>

\* hi\r\n
OutChunk == <<"h", "i", CR, LF>>

\* three lines of output, the second with a carriage return inside
LinesChunk == <<"a", CR, LF, "x", CR, "o", CR, LF, "c", CR, LF>>

\* the prompt of the workspace r
PromptChunk == <<"~", "/", "r", "$", SP>>

\* the same prompt, coloured
ColourPromptChunk == <<ESC, "[", "1", "m", "~", "/", "r", ESC, "[", "0", "m", "$", SP>>

\* cmd.hint.text
HintText == <<"x">>

\* a command event carries an output chunk or a hint
OutputEvent(c) == [output |-> c, hint |-> <<>>]

HintEvent == [output |-> <<>>, hint |-> HintText]

\* `\nHint:  ${cmd.hint.text}`, as the buffered drivers append it
HintNote(h) == <<LF, "H", "i", "n", "t", ":", SP, SP>> \o h

\* '\nHint: ' + cmd.hint.text, as the streaming drivers write it
HintLine(h) == <<LF, "H", "i", "n", "t", ":", SP>> \o h

\* the closure a driver creates with `new Promise((res, rej) => ...)`: its
\* promise (state, value), content, promptAppearance (count), its deadline
\* (setTimeout) and, in execRun, its Timer (undefined without a timeout, and
\* constructed without being started with one); and, as history, the output
\* chunks the callback was handed (got), all the events it was handed (seen)
\* and the number of stdin 'data' events its wiring forwarded after its
\* promise had settled (late)
NewListener(t, op, arg, h) ==
    [op |-> op, h |-> h, task |-> t,
     exec |-> IF op \in RunOps THEN <<>> ELSE Command,
     content |-> <<>>, count |-> 0, got |-> <<>>, seen |-> <<>>, late |-> 0,
     deadline |-> IF arg = 1 /\ op # "execRun" THEN "armed" ELSE "none",
     timer |-> IF op # "execRun" THEN "none"
               ELSE IF arg = 1 THEN "idle" ELSE "undefined",
     state |-> "pending", value |-> <<>>]

\* res(v) that settles a promise anew
ResolveAgain(l, v) == [l EXCEPT !.state = "resolved", !.value = v]

\* res(v): a promise settles once
Resolve(l, v) ==
    IF l.state = "pending" THEN [l EXCEPT !.state = "resolved", !.value = v] ELSE l

\* rej(new Error('Runner timed out.'))
Reject(l) ==
    IF l.state = "pending" THEN [l EXCEPT !.state = "rejected"] ELSE l

\* if (promptAppearance === 2) res(cleanTerminalOutput(content)) / res(true)
AtSecond(l) ==
    IF l.count # 2 THEN l
    ELSE Resolve(l, IF l.op \in BufferedOps THEN cleanTerminalOutput(l.content) ELSE <<>>)

\* cmd.output.includes(runPrompt) in the run drivers, shellPrompt.test of the
\* chunk without its escape sequences in the others
Sighting(l, out, li) ==
    IF l.op \in RunOps THEN [found |-> TRUE, lastIndex |-> li]
    ELSE PromptTest(StripAnsi(out), li)

\* if (cmd.output === `${exec}\r\n`) return, never taken
IsEchoNever(l, out) == FALSE

\* an echo test that is made of the first chunk only
IsEchoFirst(l, out) ==
    l.op \in {"execInterp", "execShell"} /\ out = l.exec \o <<CR, LF>> /\ l.got = <<>>

\* if (cmd.output === `${exec}\r\n`) return, in execInterp and execShell
IsEcho(l, out) == l.op \in {"execInterp", "execShell"} /\ out = l.exec \o <<CR, LF>>

\* timer.restart() that leaves the timer as it is
RestartedNot(l) == l

\* timer.restart(): clearTimeout(this.handle), then setTimeout again
Restarted(l) == [l EXCEPT !.timer = "armed"]

\* the onCommand callback of listener l run on an output chunk; in execRun
\* without a timeout `timer` is undefined and timer.restart() throws
OnOutput(l, out, li) ==
    IF IsEcho(l, out)
    THEN [l |-> [l EXCEPT !.got = Append(@, out), !.seen = Append(@, OutputEvent(out))],
          li |-> li, wrote |-> <<>>, threw |-> FALSE]
    ELSE LET s == Sighting(l, out, li)
             counted == [l EXCEPT !.count = IF s.found THEN @ + 1 ELSE @,
                                  !.got = Append(@, out),
                                  !.seen = Append(@, OutputEvent(out))]
         IN IF l.op \in StreamOps
            THEN [l |-> AtSecond(counted), li |-> s.lastIndex,
                  wrote |-> <<out>>, threw |-> FALSE]
            ELSE LET grown == [counted EXCEPT !.content = @ \o out]
                 IN IF l.op = "execRun" /\ l.timer = "undefined"
                    THEN [l |-> grown, li |-> s.lastIndex, wrote |-> <<>>, threw |-> TRUE]
                    ELSE [l |-> AtSecond(IF l.op = "execRun" THEN Restarted(grown)
                                         ELSE grown),
                          li |-> s.lastIndex, wrote |-> <<>>, threw |-> FALSE]

\* a callback that lets hints pass
OnHintDropped(l, h, li) ==
    [l |-> [l EXCEPT !.seen = Append(@, [output |-> <<>>, hint |-> h])], li |-> li,
     wrote |-> <<>>, threw |-> FALSE]

\* the onCommand callback of listener l run on a hint
OnHint(l, h, li) ==
    IF l.op \in StreamOps
    THEN [l |-> [l EXCEPT !.seen = Append(@, [output |-> <<>>, hint |-> h])], li |-> li,
          wrote |-> <<HintLine(h)>>, threw |-> FALSE]
    ELSE [l |-> [l EXCEPT !.content = @ \o HintNote(h),
                          !.seen = Append(@, [output |-> <<>>, hint |-> h])],
          li |-> li, wrote |-> <<>>, threw |-> FALSE]

\* the `if (cmd.hint) { ... }` block of the callback of listener l, handed ev,
\* with r the outcome of the `if (cmd.output) { ... }` block before it: the
\* block is not reached when that one returned on the echo or threw
ThenHint(l, ev, r) ==
    IF ev.hint = <<>> THEN r
    ELSE [l |-> [r.l EXCEPT !.seen = Append(l.seen, ev),
                            !.content = IF IsEcho(l, ev.output) \/ r.threw
                                           \/ l.op \in StreamOps
                                        THEN @ ELSE @ \o HintNote(ev.hint)],
          li |-> r.li,
          wrote |-> IF IsEcho(l, ev.output) \/ r.threw \/ l.op \notin StreamOps
                    THEN r.wrote ELSE r.wrote \o <<HintLine(ev.hint)>>,
          threw |-> r.threw]

\* the onCommand callback of listener l: `if (cmd.output) { ... }`, left by
\* `return` on the echo, and then `if (cmd.hint) { ... }`
Handle(l, ev, li) ==
    IF ev.output = <<>> THEN OnHint(l, ev.hint, li)
    ELSE ThenHint(l, ev, OnOutput(l, ev.output, li))

\* the transport hands an event of channel h to the callbacks registered on
\* it, in the order of their registration; when one throws, goOn says
\* whether the transport still runs the ones after it
RECURSIVE Dispatch(_, _, _, _, _)
Dispatch(i, h, ev, goOn, acc) ==
    IF i > Len(acc.ls) THEN acc
    ELSE IF acc.ls[i].h # h THEN Dispatch(i + 1, h, ev, goOn, acc)
    ELSE LET r == Handle(acc.ls[i], ev, acc.li)
             next == [ls |-> [acc.ls EXCEPT ![i] = r.l], li |-> r.li,
                      wrote |-> acc.wrote \o r.wrote,
                      threw |-> acc.threw + (IF r.threw THEN 1 ELSE 0)]
         IN IF r.threw /\ ~goOn THEN next ELSE Dispatch(i + 1, h, ev, goOn, next)

\* what the caller of a driver gets when its promise settles
DriverOutcome(l) ==
    IF l.state = "rejected" THEN Throw("Error: Runner timed out.")
    ELSE IF l.op \in StreamOps THEN Ret("true")
    ELSE Ret("text")

\* the listeners whose promise is pending in old and settled in new
NewlySettled(old, new) ==
    {i \in 1..Len(old) : old[i].state = "pending" /\ new[i].state # "pending"}

\* the callers of the promises that settled resume and return
Settle(old, new) ==
    LET done == NewlySettled(old, new)
    IN /\ tasks' = [t \in Tasks |->
                       IF \E i \in done : new[i].task = t THEN Idle ELSE tasks[t]]
       /\ last' = IF done = {} THEN last
                  ELSE Settled(new[Greatest(done)].task, new[Greatest(done)].op,
                               DriverOutcome(new[Greatest(done)]))

\* an event arrives on channel h of the open connection
Deliver(h, ev, goOn) ==
    /\ connected
    /\ delivered < MaxEvents
    /\ \E i \in 1..Len(listeners) : listeners[i].h = h
    /\ LET r == Dispatch(1, h, ev, goOn,
                         [ls |-> listeners, li |-> lastIndex, wrote |-> <<>>, threw |-> 0])
       IN /\ r.threw = 0 => goOn
          /\ listeners' = r.ls
          /\ lastIndex' = r.li
          /\ stdout' = stdout \o r.wrote
          /\ uncaught' = uncaught + r.threw
          /\ Settle(listeners, r.ls)
    /\ delivered' = delivered + 1
    /\ UNCHANGED <<sessionVars, calls, net, client, fx, nextH, issued, returned, overlap,
                   wired, text, cleaned, utilVars>>

\* setTimeout(() => rej(new Error('Runner timed out.')), timeout) comes due
DeadlineFire(i) ==
    /\ i \in 1..Len(listeners)
    /\ listeners[i].deadline = "armed"
    /\ listeners' = [listeners EXCEPT ![i] = [Reject(@) EXCEPT !.deadline = "fired"]]
    /\ Settle(listeners, listeners')
    /\ UNCHANGED <<sessionVars, calls, net, client, fx, nextH, issued, returned, overlap,
                   lastIndex, stdout, wired, uncaught, delivered, text, cleaned, utilVars>>

\* the Timer of execRun comes due: res(cleanTerminalOutput(content))
TimerFire(i) ==
    /\ i \in 1..Len(listeners)
    /\ listeners[i].timer = "armed"
    /\ listeners' = [listeners EXCEPT ![i] =
                        [Resolve(@, cleanTerminalOutput(@.content)) EXCEPT !.timer = "idle"]]
    /\ Settle(listeners, listeners')
    /\ UNCHANGED <<sessionVars, calls, net, client, fx, nextH, issued, returned, overlap,
                   lastIndex, stdout, wired, uncaught, delivered, text, cleaned, utilVars>>

\* the 'data' handlers that forward the input without the line end
RECURSIVE ForwardedBare(_)
ForwardedBare(ws) ==
    IF ws = <<>> THEN <<>>
    ELSE <<SendFx(Head(ws), "input")>> \o ForwardedBare(Tail(ws))

\* the sends of the 'data' handlers, in the order they were put on stdin:
\* runChan.send({ input: input.toString() }); runChan.send({ input: '\r\n' })
RECURSIVE Forwarded(_)
Forwarded(ws) ==
    IF ws = <<>> THEN <<>>
    ELSE <<SendFx(Head(ws), "input"), SendFx(Head(ws), "crlf")>> \o Forwarded(Tail(ws))

\* this.streams.stdin emits 'data'
StdinData ==
    /\ delivered < MaxEvents
    /\ wired # <<>>
    /\ fx' = fx \o Forwarded(wired)
    /\ listeners' = [i \in 1..Len(listeners) |->
                        IF listeners[i].op \in StreamOps /\ listeners[i].state # "pending"
                        THEN [listeners[i] EXCEPT !.late = @ + 1]
                        ELSE listeners[i]]
    /\ delivered' = delivered + 1
    /\ UNCHANGED <<sessionVars, tasks, last, calls, net, client, nextH, issued, returned,
                   overlap, lastIndex, stdout, wired, uncaught, text, cleaned, utilVars>>

(* ------------------------------- channel ------------------------------ *)

\* the code that follows `await this.channel(...)` in the method of call c,
\* run with the handle h up to the method's next await or its return; f is
\* the transport's trace when that code starts
Resume(t, c, f, h) ==
    CASE c.op = "channel" ->
            /\ tasks' = [tasks EXCEPT ![t] = Idle]
            /\ last' = Settled(t, "channel", RetH(h)) @@ [svc |-> c.svc, name |-> c.name]
            /\ fx' = f
            /\ UNCHANGED execVars
      [] c.op = "persist" ->
            /\ fx' = Append(f, RequestFx(h, "persist"))
            /\ tasks' = [tasks EXCEPT ![t] = [c EXCEPT !.pc = "awaitResp", !.h = h]]
            /\ UNCHANGED <<last, execVars>>
      [] c.op = "gitignore" ->
            /\ fx' = Append(f, RequestFx(h, "read"))
            /\ tasks' = [tasks EXCEPT ![t] = [c EXCEPT !.pc = "awaitResp", !.h = h]]
            /\ UNCHANGED <<last, execVars>>
      [] c.op = "execStop" ->
            /\ fx' = f \o StopFx(h)
            /\ tasks' = [tasks EXCEPT ![t] = Idle]
            /\ last' = Settled(t, "execStop", Ret("true"))
            /\ UNCHANGED execVars
      [] c.op = "shellStop" ->
            /\ fx' = f \o <<OnCommandFx(h, "shellStop"), SendFx(h, "clear"), StdinOnFx(h)>>
            /\ tasks' = [tasks EXCEPT ![t] = Idle]
            /\ last' = Settled(t, "shellStop", Ret("console"))
            /\ shell' = [on |-> TRUE, h |-> h, lastLine |-> <<>>, got |-> <<>>]
            /\ UNCHANGED <<listeners, lastIndex, stdout, wired, uncaught, delivered, text,
                           cleaned, fetched, metadata, fileVars, waiter>>
      [] c.op \in ExecOps \ {"execStop"} ->
            /\ fx' = f \o DriverFx(c.op, c.arg, h)
            /\ tasks' = [tasks EXCEPT ![t] = [c EXCEPT !.pc = "awaitPrompt", !.h = h]]
            /\ listeners' = Append(listeners, NewListener(t, c.op, c.arg, h))
            /\ wired' = IF c.op \in StreamOps THEN Append(wired, h) ELSE wired
            /\ UNCHANGED <<last, lastIndex, stdout, uncaught, delivered, text, cleaned, utilVars>>
      [] c.op \in {"packageAdd", "packageRemove"} ->
            /\ fx' = f \o (IF c.arg = 1 THEN <<OnCommandFx(h, c.op)>> ELSE <<>>)
                        \o InfoRequests(h, c.n)
            /\ tasks' = [tasks EXCEPT ![t] =
                            [c EXCEPT !.pc = "awaitInfos", !.h = h, !.n = c.n + 1]]
            /\ UNCHANGED <<last, execVars>>
      [] OTHER ->
            /\ fx' = f \o (IF c.arg = 1 THEN <<OnCommandFx(h, c.op)>> ELSE <<>>)
                        \o <<RequestFx(h, c.op)>>
            /\ tasks' = [tasks EXCEPT ![t] = [c EXCEPT !.pc = "awaitResp", !.h = h]]
            /\ UNCHANGED <<last, execVars>>

\* channel() that never finds a stored handle
StoredNever(k) == 0

\* const stored = this.channels[id]; if (stored) return stored
Stored(k) == channels[k]

\* channel(service, name) as called by the method of call c: the cached handle
\* is returned, or an openChannel request is made and the call suspends
Channel(t, c) ==
    LET k == CacheKey(c.svc, c.name) IN
    /\ overlap' = [overlap EXCEPT ![k] = @ \/ Opening(k) # {}]
    /\ IF Stored(k) # 0
       THEN /\ returned' = [returned EXCEPT ![k] = Append(@, Stored(k))]
            /\ Resume(t, c, fx, Stored(k))
       ELSE /\ fx' = Append(fx, OpenChannelFx(c.svc, c.name))
            /\ tasks' = [tasks EXCEPT ![t] = [c EXCEPT !.pc = "awaitChan"]]
            /\ UNCHANGED <<last, returned, execVars>>

\* client.channel(service, name) called directly
ChannelCall(t, svc, name) ==
    /\ CanCall(t)
    /\ calls' = calls + 1
    /\ Channel(t, [Idle EXCEPT !.op = "channel", !.svc = svc, !.name = name])
    /\ UNCHANGED <<sessionVars, net, client, nextH, issued>>

\* an open callback that rejects with an error of its own
OpenRejectedWrapped(err) == Throw("Error")

\* if (error) rej(error): the awaiting channel() rejects with the error itself
OpenRejected(err) == Throw(err)

\* the openChannel callback: ({ channel, error }) => { rej(error) / res(channel) },
\* then this.channels[id] = chan; return chan
ChannelCallback(t, err) ==
    /\ tasks[t].pc = "awaitChan"
    /\ LET c == tasks[t]
           k == CacheKey(c.svc, c.name)
       IN IF err # ""
          THEN /\ tasks' = [tasks EXCEPT ![t] = Idle]
               /\ last' = Settled(t, c.op, OpenRejected(err))
               /\ fx' = Append(fx, OpenErrorFx(c.svc, c.name))
               /\ UNCHANGED <<channels, nextH, issued, returned, execVars>>
          ELSE /\ channels' = [channels EXCEPT ![k] = nextH]
               /\ nextH' = nextH + 1
               /\ issued' = [issued EXCEPT ![k] = @ \cup {nextH}]
               /\ returned' = [returned EXCEPT ![k] = Append(@, nextH)]
               /\ Resume(t, c, Append(fx, OpenedFx(nextH, c.svc, c.name)), nextH)
    /\ UNCHANGED overlap
    /\ UNCHANGED <<constructed, token, ignore, user, repl, connected, persisting,
                   calls, net, client>>

(* ------------------------- persist, gitignore ------------------------- *)

\* persist(): const gcsfilesChan = await this.channel('gcsfiles')
PersistCall(t) ==
    /\ CanCall(t)
    /\ calls' = calls + 1
    /\ Channel(t, [Idle EXCEPT !.op = "persist", !.svc = "gcsfiles"])
    /\ UNCHANGED <<sessionVars, net, client, nextH, issued>>

\* gitignore(): if (this.ignore) return this.ignore; else read '.gitignore'
GitignoreCall(t) ==
    /\ CanCall(t)
    /\ calls' = calls + 1
    /\ IF ignore # ""
       THEN /\ last' = Settled(t, "gitignore", Ret(ignore))
            /\ UNCHANGED <<tasks, fx, returned, overlap, execVars>>
       ELSE Channel(t, [Idle EXCEPT !.op = "gitignore", !.svc = "files"])
    /\ UNCHANGED <<sessionVars, net, client, nextH, issued>>

\* a gated method is called: false without the capability, else its channel
GatedCall(t, op, flag, n) ==
    /\ CanCall(t)
    /\ calls' = calls + 1
    /\ IF ~repl.set
       THEN /\ last' = Settled(t, op, Throw("TypeError"))
            /\ UNCHANGED <<tasks, fx, returned, overlap, execVars>>
       ELSE IF ~Capable(op)
       THEN /\ last' = Settled(t, op, Ret("false"))
            /\ UNCHANGED <<tasks, fx, returned, overlap, execVars>>
       ELSE Channel(t, [Idle EXCEPT !.op = op, !.svc = ServiceOf(op),
                                    !.arg = flag, !.n = n])
    /\ UNCHANGED <<sessionVars, net, client, nextH, issued>>

(* ------------------------------ responses ----------------------------- *)

\* the error raised without the remote's message
RemoteErrorNoMessage(res) == Throw("CrosisError: ")

\* if (res.error) throw new Error('CrosisError: ' + res.error)
RemoteError(res) == Throw("CrosisError: " \o res.error)

\* what the method op makes of the response res to its request
Outcome(op, res) ==
    CASE op = "gitignore" ->
            IF res.error # "" THEN Ret("false")
            ELSE IF res.body THEN Ret("content") ELSE Ret("false")
      [] op \in {"persist", "packageInstall", "packageAdd", "packageRemove"} ->
            IF res.error # "" THEN RemoteError(res)
            ELSE IF res.ok THEN Ret("true") ELSE Ret("false")
      [] OTHER ->
            IF res.error # "" THEN RemoteError(res)
            ELSE IF res.body THEN Ret("payload") ELSE Throw("TypeError")

\* persist() that sets the flag whatever the response says
PersistingAfterAny(op, res) == IF op = "persist" THEN TRUE ELSE persisting

\* if (res.ok) this.persisting = true
PersistingAfter(op, res) ==
    IF op = "persist" /\ res.error = "" /\ res.ok THEN TRUE ELSE persisting

\* the remote answers the request the call of t is suspended on
Response(t, res) ==
    /\ tasks[t].pc = "awaitResp"
    /\ tasks' = [tasks EXCEPT ![t] = Idle]
    /\ last' = Settled(t, tasks[t].op, Outcome(tasks[t].op, res))
    /\ persisting' = PersistingAfter(tasks[t].op, res)
    /\ UNCHANGED <<constructed, token, ignore, user, repl, channels, connected,
                   calls, net, client, fx, nextH, issued, returned, overlap>>
    /\ UNCHANGED execVars

\* the request promise rejects: gitignore catches it, the others let it through
RequestRejected(t, e) ==
    /\ tasks[t].pc = "awaitResp"
    /\ tasks' = [tasks EXCEPT ![t] = Idle]
    /\ last' = Settled(t, tasks[t].op,
                       IF tasks[t].op = "gitignore" THEN Ret("false") ELSE Throw(e))
    /\ UNCHANGED <<sessionVars, calls, net, client, fx, nextH, issued, returned, overlap>>
    /\ UNCHANGED execVars

\* one of the packageInfo lookups of packageAdd / packageRemove is answered;
\* after the last one the add / remove request is made
InfoResponse(t, res) ==
    /\ tasks[t].pc = "awaitInfos"
    /\ LET c == tasks[t] IN
       IF Outcome("packageInfo", res).kind = "throw"
       THEN /\ tasks' = [tasks EXCEPT ![t] = Idle]
            /\ last' = Settled(t, c.op, Outcome("packageInfo", res))
            /\ UNCHANGED fx
       ELSE IF c.n > 1
       THEN /\ tasks' = [tasks EXCEPT ![t].n = c.n - 1]
            /\ UNCHANGED <<last, fx>>
       ELSE /\ tasks' = [tasks EXCEPT ![t] = [c EXCEPT !.pc = "awaitResp", !.n = 0]]
            /\ fx' = Append(fx, RequestFx(c.h, c.op))
            /\ UNCHANGED last
    /\ UNCHANGED <<sessionVars, calls, net, client, nextH, issued, returned, overlap>>
    /\ UNCHANGED execVars

(* -------------------------------- Next -------------------------------- *)

\* the steps of the collaborators that resume a suspended connect()
ConnectSteps(rs) ==
    \/ \E t \in Tasks, ok \in BOOLEAN : TestReturn(t, ok)
    \/ \E t \in Tasks, f \in BOOLEAN : UserReturn(t, f)
    \/ \E t \in Tasks, f \in BOOLEAN, r \in rs : ReplReturn(t, f, r)
    \/ \E t \in Tasks, c \in BOOLEAN : OpenCallback(t, c)

\* the session's life cycle and its channel registry
Next ==
    \/ \E tok \in Tokens : Construct(tok, "")
    \/ \E t \in Tasks : calls < MaxCalls /\ ConnectCall(t)
    \/ ConnectSteps({[set |-> TRUE, runner |-> TRUE, packager3 |-> TRUE]})
    \/ \E t \in Tasks, op \in CloseOps : calls < MaxCalls /\ CloseCall(t, op)
    \/ \E t \in Tasks, svc \in ChannelServices, name \in ChannelNames :
            calls < MaxCalls /\ ChannelCall(t, svc, name)
    \/ \E t \in Tasks, e \in OpenErrors \cup {""} : ChannelCallback(t, e)

Spec == Init /\ [][Next]_vars

\* a connect() whose collaborators all answer well
ConnectOkSteps(rs) ==
    \/ \E t \in Tasks : TestReturn(t, TRUE)
    \/ \E t \in Tasks : UserReturn(t, TRUE)
    \/ \E t \in Tasks, r \in rs : ReplReturn(t, TRUE, r)
    \/ \E t \in Tasks : OpenCallback(t, TRUE)

\* the request / response methods
RequestNext ==
    \/ \E ign \in {"", "dist"} : Construct("connect.sid", ign)
    \/ \E t \in Tasks : calls < MaxCalls /\ ConnectCall(t)
    \/ ConnectOkSteps({[set |-> TRUE, runner |-> TRUE, packager3 |-> TRUE]})
    \/ \E t \in Tasks : calls < MaxCalls /\ PersistCall(t)
    \/ \E t \in Tasks : calls < MaxCalls /\ GitignoreCall(t)
    \/ \E t \in Tasks, op \in {"packageInstall", "packageList"} :
            calls < MaxCalls /\ GatedCall(t, op, 0, 0)
    \/ \E t \in Tasks : ChannelCallback(t, "")
    \/ \E t \in Tasks, res \in Responses : Response(t, res)
    \/ \E t \in Tasks : RequestRejected(t, "closed")

RequestSpec == Init /\ [][RequestNext]_vars

\* the capability-gated methods
GatedNext ==
    \/ Construct("connect.sid", "")
    \/ \E t \in Tasks : calls < MaxGated /\ ConnectCall(t)
    \/ ConnectOkSteps(Repls)
    \/ \E t \in Tasks, op \in GatedOps, flag \in {0, 1}, n \in {0, 1} :
            /\ op \notin FlagOps => flag = 0
            /\ op \notin {"packageAdd", "packageRemove"} => n = 0
            /\ calls < MaxGated
            /\ GatedCall(t, op, flag, n)
    \/ \E t \in Tasks : ChannelCallback(t, "")
    \/ \E t \in Tasks, res \in Responses : Response(t, res)
    \/ \E t \in Tasks, res \in Responses : InfoResponse(t, res)

GatedSpec == Init /\ [][GatedNext]_vars

\* a workspace whose descriptor declares a runner
RunnerRepl == [set |-> TRUE, runner |-> TRUE, packager3 |-> FALSE]

\* the handles of the channels that have a listener
Listened == {listeners[i].h : i \in 1..Len(listeners)}

\* a driver is called, with or without a timeout, once connect() has returned;
\* one behaviour uses one driver, once or repeatedly, each call awaited before
\* the next is made
DriverCall(t, op, flag) ==
    /\ calls < MaxCalls
    /\ repl.set
    /\ \A u \in Tasks : tasks[u].pc = "idle"
    /\ \A i \in 1..Len(listeners) : listeners[i].op = op
    /\ Len(listeners) < MaxDrivers
    /\ GatedCall(t, op, flag, 0)

\* the session is constructed and connected first, and channels are opened
DriverSetup ==
    \/ Construct("connect.sid", "")
    \/ \E t \in Tasks : calls = 0 /\ ConnectCall(t)
    \/ ConnectOkSteps({RunnerRepl})
    \/ \E t \in Tasks : ChannelCallback(t, "")

\* the buffered drivers that send a command: execShell, execInterp
ShellNext ==
    \/ DriverSetup
    \/ \E t \in Tasks, op \in {"execShell", "execInterp"}, flag \in {0, 1} :
            DriverCall(t, op, flag)
    \/ \E h \in Listened, c \in {EchoChunk, OutChunk, PromptChunk} :
            Deliver(h, OutputEvent(c), TRUE)
    \/ \E i \in 1..Len(listeners) : DeadlineFire(i)

ShellSpec == Init /\ [][ShellNext]_vars

\* the streaming drivers, stdin, and close() once a driver has been used
StreamNext ==
    \/ DriverSetup
    \/ \E t \in Tasks, op \in StreamOps, flag \in {0, 1} : DriverCall(t, op, flag)
    \/ \E h \in Listened, ev \in {OutputEvent(PromptChunk), OutputEvent(ColourPromptChunk), HintEvent} :
            Deliver(h, ev, TRUE)
    \/ \E i \in 1..Len(listeners) : DeadlineFire(i)
    \/ StdinData
    \/ \E t \in Tasks : calls < MaxCalls /\ listeners # <<>> /\ CloseCall(t, "close")

StreamSpec == Init /\ [][StreamNext]_vars

\* execRun
RunNext ==
    \/ DriverSetup
    \/ \E t \in Tasks, flag \in {0, 1} : DriverCall(t, "execRun", flag)
    \/ \E h \in Listened, ev \in {OutputEvent(OutChunk), OutputEvent(LinesChunk), HintEvent},
          goOn \in BOOLEAN : Deliver(h, ev, goOn)
    \/ \E i \in 1..Len(listeners) : TimerFire(i)

RunSpec == Init /\ [][RunNext]_vars

\* listener i belongs to an execRun called with a timeout, has been handed
\* no output chunk and its promise is pending
Silent(i) ==
    /\ i <= Len(listeners)
    /\ listeners[i].op = "execRun"
    /\ listeners[i].timer # "undefined"
    /\ listeners[i].got = <<>>
    /\ listeners[i].state = "pending"

\* execRun and the event loop: a running timer of a run that has been handed
\* no chunk comes due
RunLiveSpec ==
    Init /\ [][RunNext]_vars /\ WF_vars(\E i \in 1..MaxDrivers : Silent(i) /\ TimerFire(i))

\* execStop is called, also while a command is in flight
StopCall(t) ==
    /\ calls < MaxCalls
    /\ repl.set
    /\ \A u \in Tasks : tasks[u].pc \in {"idle", "awaitPrompt"}
    /\ GatedCall(t, "execStop", 0, 0)

\* a command on the run channel or on the shell channel, and execStop
StopNext ==
    \/ DriverSetup
    \/ \E t \in Tasks, op \in {"execInterp", "execShell"} : DriverCall(t, op, 0)
    \/ \E h \in Listened, c \in {OutChunk, PromptChunk} : Deliver(h, OutputEvent(c), TRUE)
    \/ \E t \in Tasks : StopCall(t)

StopSpec == Init /\ [][StopNext]_vars

\* a command, with or without a deadline, and close() while it is in flight
CloseNext ==
    \/ DriverSetup
    \/ \E t \in Tasks, op \in {"execInterp", "execShell"}, flag \in {0, 1} :
            DriverCall(t, op, flag)
    \/ \E h \in Listened, c \in {OutChunk, PromptChunk} : Deliver(h, OutputEvent(c), TRUE)
    \/ \E i \in 1..Len(listeners) : DeadlineFire(i)
    \/ \E t \in Tasks : calls < MaxCalls /\ listeners # <<>> /\ CloseCall(t, "close")

\* the buffered drivers with all they are handed: the echo, output, the
\* prompt and hints
BufferNext ==
    \/ DriverSetup
    \/ \E t \in Tasks, op \in BufferedOps, flag \in {0, 1} : DriverCall(t, op, flag)
    \/ \E h \in Listened, ev \in {OutputEvent(EchoChunk), OutputEvent(OutChunk),
                                   OutputEvent(PromptChunk), HintEvent},
          goOn \in BOOLEAN : Deliver(h, ev, goOn)
    \/ \E i \in 1..Len(listeners) : DeadlineFire(i)
    \/ \E i \in 1..Len(listeners) : TimerFire(i)

BufferSpec == Init /\ [][BufferNext]_vars

\* every run / exec driver, with events and stdin input
InvokeNext ==
    \/ DriverSetup
    \/ \E t \in Tasks, op \in BufferedOps \cup StreamOps, flag \in {0, 1} :
            DriverCall(t, op, flag)
    \/ \E h \in Listened, c \in {OutChunk, PromptChunk}, goOn \in BOOLEAN :
            Deliver(h, OutputEvent(c), goOn)
    \/ StdinData

InvokeSpec == Init /\ [][InvokeNext]_vars

\* a driver is called while the promise of every earlier call is pending
OverlapCall(t, op, flag) ==
    /\ calls < MaxCalls
    /\ repl.set
    /\ connected
    /\ Len(listeners) < 2
    /\ \A i \in 1..Len(listeners) : listeners[i].state = "pending"
    /\ \A u \in Tasks : tasks[u].pc \in {"idle", "awaitPrompt"}
    /\ GatedCall(t, op, flag, 0)

\* two calls of the drivers of the run channel that are not awaited
OverlapNext ==
    \/ DriverSetup
    \/ \E t \in Tasks, op \in {"execInterp", "execInterpStream"}, flag \in {0, 1} :
            OverlapCall(t, op, flag)
    \/ \E h \in Listened, c \in {EchoChunk, OutChunk, PromptChunk} :
            Deliver(h, OutputEvent(c), TRUE)
    \/ \E i \in 1..Len(listeners) : DeadlineFire(i)

OverlapSpec == Init /\ [][OverlapNext]_vars

\* a driver is called after the call before it has settled
SequelCall(t, op, flag) ==
    /\ calls < MaxCalls
    /\ repl.set
    /\ \A u \in Tasks : tasks[u].pc = "idle"
    /\ Len(listeners) < 2
    /\ GatedCall(t, op, flag, 0)

\* execShell and execInterp called one after the other, each call awaited
SequelNext ==
    \/ DriverSetup
    \/ \E t \in Tasks, op \in {"execShell", "execInterp"}, flag \in {0, 1} :
            SequelCall(t, op, flag)
    \/ \E h \in Listened, c \in {OutChunk, PromptChunk} : Deliver(h, OutputEvent(c), TRUE)
    \/ \E i \in 1..Len(listeners) : DeadlineFire(i)

SequelSpec == Init /\ [][SequelNext]_vars

(* ------------------------------ shellStop ----------------------------- *)

\* the line typed on stdin, and the pieces the terminal may echo it in
TypedLines == {<<"l", "s">>, <<"s">>}

ShellChunks == {<<"l">>, <<"l", "s">>, <<"s">>, <<CR, CR, LF>>, OutChunk}

\* the events the run channel delivers to the listener of shellStop
ShellEvents ==
    {OutputEvent(c) : c \in ShellChunks} \cup {HintEvent}
        \cup {[output |-> c, hint |-> HintText] : c \in {<<"l">>, OutChunk}}

\* a test that holds of the whole of lastLine only
StartsWithWhole(s, p) == s = p

\* lastLine.startsWith(cmd.output)
StartsWith(s, p) == Len(p) <= Len(s) /\ \A k \in 1..Len(p) : s[k] = p[k]

\* lastLine.slice(cmd.output.length)
SliceFrom(s, n) == [k \in 1..(Len(s) - n) |-> s[k + n]]

\* shellStop() is called once the session is connected
ShellStopCall(t) ==
    /\ calls < MaxCalls
    /\ repl.set
    /\ ~shell.on
    /\ \A u \in Tasks : tasks[u].pc = "idle"
    /\ GatedCall(t, "shellStop", 0, 0)

\* runChan.onCommand((cmd) => { ... }) of shellStop is handed cmd
ShellCommand(cmd) ==
    /\ shell.on
    /\ delivered < MaxEvents
    /\ delivered' = delivered + 1
    /\ IF cmd.output # <<>> /\ StartsWith(shell.lastLine, cmd.output)
       THEN /\ shell' = [shell EXCEPT !.lastLine = SliceFrom(@, Len(cmd.output)),
                                      !.got = Append(@, [input |-> <<>>] @@ cmd)]
            /\ UNCHANGED stdout
       ELSE /\ shell' = [shell EXCEPT !.got = Append(@, [input |-> <<>>] @@ cmd)]
            /\ stdout' = stdout \o cmd.output
                            \o (IF cmd.hint # <<>> THEN HintLine(cmd.hint) ELSE <<>>)
    /\ UNCHANGED <<sessionVars, tasks, last, calls, net, client, fx, nextH, issued,
                   returned, overlap, listeners, lastIndex, wired, uncaught, text,
                   cleaned, fetched, metadata, fileVars, waiter>>

\* this.streams.stdin.on('data', (input) => { ... }) of shellStop is handed input
ShellInput(input) ==
    /\ shell.on
    /\ delivered < MaxEvents
    /\ delivered' = delivered + 1
    /\ shell' = [shell EXCEPT !.lastLine = input \o <<CR, CR, LF>>,
                              !.got = Append(@, [input |-> input, output |-> <<>>,
                                                 hint |-> <<>>])]
    /\ fx' = fx \o <<SendFx(shell.h, "input"), SendFx(shell.h, "crlf")>>
    /\ UNCHANGED <<sessionVars, tasks, last, calls, net, client, nextH, issued,
                   returned, overlap, listeners, lastIndex, stdout, wired, uncaught,
                   text, cleaned, fetched, metadata, fileVars, waiter>>

\* the interactive shell: typed lines, and what the run channel sends back
ConsoleNext ==
    \/ DriverSetup
    \/ \E t \in Tasks : ShellStopCall(t)
    \/ \E cmd \in ShellEvents : ShellCommand(cmd)
    \/ \E input \in TypedLines : ShellInput(input)

ConsoleSpec == Init /\ [][ConsoleNext]_vars

(* ------------------------------ cmdTimeout ---------------------------- *)

\* the state commands the run channel delivers: an exit (state 0) or not, of
\* the channel itself (no session) or of a sub-session, with its ok flag
StateCommands == [kind : {"cmd"}, state : {0, 1}, session : {0, 1}, ok : BOOLEAN]

\* the timeout argument: none, or a number of milliseconds
Timeouts == {0, 1}

\* the timer coming due, as the closure of cmdTimeout sees it
TimerCame == [kind |-> "timer", state |-> 1, session |-> 0, ok |-> FALSE]

\* res(v) / rej(v) of the promise of cmdTimeout: only the first call settles
\* it, and every call is counted
SettleWaiter(w, how, v) ==
    [w EXCEPT !.state = IF @ = "pending" THEN how ELSE @,
              !.value = IF w.state = "pending" THEN v ELSE @,
              !.settles = @ + 1]

\* cmdTimeout(channel, timeout): the timer is set if a timeout is given, and
\* the listener is registered
CmdTimeout(h, timeout) ==
    /\ ~waiter.on
    /\ waiter' = [NoWaiter EXCEPT !.on = TRUE, !.state = "pending",
                                  !.timer = IF timeout > 0 THEN "set" ELSE "none"]
    /\ fx' = Append(fx, OnCommandFx(h, "cmdTimeout"))
    /\ UNCHANGED <<sessionVars, tasks, last, calls, net, client, nextH, issued,
                   returned, overlap, listeners, lastIndex, stdout, wired, uncaught,
                   delivered, text, cleaned, fetched, metadata, fileVars, shell>>

\* a listener that does not look at promiseDidFinish
FinishedNever(w) == FALSE

\* promiseDidFinish
Finished(w) == w.finished

\* const listener = (cmd) => { if (!promiseDidFinish && cmd.state === 0 &&
\* !cmd.session) { ... res(cmd.ok ? true : false) } }
WaitCommand(cmd) ==
    /\ waiter.on
    /\ delivered < MaxEvents
    /\ delivered' = delivered + 1
    /\ LET w == [waiter EXCEPT !.got = Append(@, cmd)] IN
       waiter' = IF ~Finished(waiter) /\ cmd.state = 0 /\ cmd.session = 0
                 THEN SettleWaiter([w EXCEPT !.finished = TRUE,
                                             !.timer = IF @ = "set" THEN "cleared" ELSE @],
                                   "resolved", IF cmd.ok THEN "true" ELSE "false")
                 ELSE w
    /\ UNCHANGED <<sessionVars, tasks, last, calls, net, client, fx, nextH, issued,
                   returned, overlap, listeners, lastIndex, stdout, wired, uncaught,
                   text, cleaned, fetched, metadata, fileVars, shell>>

\* setTimeout(() => { promiseDidFinish = true; rej('The runner timed out.') })
WaitTimerFire ==
    /\ waiter.on
    /\ waiter.timer = "set"
    /\ waiter' = SettleWaiter([waiter EXCEPT !.finished = TRUE, !.timer = "fired",
                                             !.got = Append(@, TimerCame)],
                              "rejected", "The runner timed out.")
    /\ UNCHANGED <<sessionVars, tasks, last, calls, net, client, fx, nextH, issued,
                   returned, overlap, listeners, lastIndex, stdout, wired, uncaught,
                   delivered, text, cleaned, fetched, metadata, fileVars, shell>>

\* cmdTimeout on a channel, the commands it is handed and its timer
WaitNext ==
    \/ \E timeout \in Timeouts : CmdTimeout(1, timeout)
    \/ \E cmd \in StateCommands : WaitCommand(cmd)
    \/ WaitTimerFire

WaitSpec == Init /\ [][WaitNext]_vars

\* the drivers that send a command, handed the echo and output at any
\* position, each with or without a hint in the same event
EchoNext ==
    \/ DriverSetup
    \/ \E t \in Tasks, op \in {"execShell", "execInterp"} : DriverCall(t, op, 0)
    \/ \E h \in Listened, c \in {EchoChunk, OutChunk, PromptChunk}, hint \in {<<>>, HintText} :
            Deliver(h, [output |-> c, hint |-> hint], TRUE)

EchoSpec == Init /\ [][EchoNext]_vars

\* the same with the event loop: a deadline that was set comes due
CloseLiveSpec ==
    Init /\ [][CloseNext]_vars /\ WF_vars(\E i \in 1..MaxDrivers : DeadlineFire(i))

\* connect(), with a handshake that may end without a channel or with an
\* unrecoverable error
HandshakeNext ==
    \/ Construct("connect.sid", "")
    \/ \E t \in Tasks : calls < MaxCalls /\ ConnectCall(t)
    \/ ConnectSteps({RunnerRepl})
    \/ \E t \in Tasks : UnrecoverableError(t)

HandshakeSpec == Init /\ [][HandshakeNext]_vars

\* one caller that awaits each call: connect() on a session that is not
\* connected, persist() on one that is, and close() or disconnect() at any
\* time, so that a session persists, is closed and is connected again
PersistedNext ==
    \/ Construct("connect.sid", "")
    \/ \E t \in Tasks : (\A u \in Tasks : tasks[u].pc = "idle") /\ ~connected
                            /\ ConnectCall(t)
    \/ ConnectOkSteps({RunnerRepl})
    \/ \E t \in Tasks : (\A u \in Tasks : tasks[u].pc = "idle") /\ connected
                            /\ PersistCall(t)
    \/ \E t \in Tasks : ChannelCallback(t, "")
    \/ \E t \in Tasks, res \in Responses : Response(t, res)
    \/ \E t \in Tasks, op \in {"close", "disconnect"} :
            (\A u \in Tasks : tasks[u].pc = "idle") /\ CloseCall(t, op)

PersistedSpec == Init /\ [][PersistedNext]_vars

\* one caller that awaits each call: connect() on a session that is not
\* connected, channel(service) on one that is, and close() at any time, so
\* that a session is connected, closed and connected again
ReconnectNext ==
    \/ Construct("connect.sid", "")
    \/ \E t \in Tasks : (\A u \in Tasks : tasks[u].pc = "idle") /\ ~connected
                            /\ ConnectCall(t)
    \/ ConnectSteps({RunnerRepl, [RunnerRepl EXCEPT !.runner = FALSE]})
    \/ \E t \in Tasks : (\A u \in Tasks : tasks[u].pc = "idle") /\ CloseCall(t, "close")
    \/ \E t \in Tasks, svc \in ChannelServices :
            (\A u \in Tasks : tasks[u].pc = "idle") /\ connected
               /\ ChannelCall(t, svc, NoName)
    \/ \E t \in Tasks : ChannelCallback(t, "")

ReconnectSpec == Init /\ [][ReconnectNext]_vars

\* the pieces the texts handed to cleanTerminalOutput on its own are made of:
\* a letter, a line feed, a carriage return and a colour sequence
Pieces == {<<"a">>, <<LF>>, <<CR>>, <<ESC, "[", "1", "m">>}

RECURSIVE Flatten(_)
Flatten(ps) == IF ps = <<>> THEN <<>> ELSE Head(ps) \o Flatten(Tail(ps))

\* every text of at most MaxPieces pieces
Texts == {Flatten(ps) : ps \in UNION {[1..k -> Pieces] : k \in 0..MaxPieces}}

\* cleanTerminalOutput is handed an accumulated text
CleanInit ==
    /\ constructed = "none"
    /\ token = ""
    /\ ignore = ""
    /\ user = FALSE
    /\ repl = NoRepl
    /\ channels = [k \in ChanKeys |-> 0]
    /\ connected = FALSE
    /\ persisting = FALSE
    /\ tasks = [t \in Tasks |-> Idle]
    /\ last = NoCall
    /\ calls = 0
    /\ net = [test |-> 0, user |-> 0, repl |-> 0]
    /\ client = [open |-> 0, close |-> 0, destroy |-> 0]
    /\ fx = <<>>
    /\ nextH = 1
    /\ issued = [k \in ChanKeys |-> {}]
    /\ returned = [k \in ChanKeys |-> <<>>]
    /\ overlap = [k \in ChanKeys |-> FALSE]
    /\ listeners = <<>>
    /\ lastIndex = 0
    /\ stdout = <<>>
    /\ wired = <<>>
    /\ uncaught = 0
    /\ delivered = 0
    /\ text \in Texts
    /\ cleaned = NotCleaned
    /\ fetched = NoFetch
    /\ metadata = NotSettled
    /\ file = NoFile
    /\ remote = NoContent
    /\ wrote = NoOutcome
    /\ readBack = NotRead
    /\ shell = NoShell
    /\ waiter = NoWaiter

\* const output = cleanTerminalOutput(content)
CleanText ==
    /\ ~cleaned.done
    /\ cleaned' = [done |-> TRUE, out |-> cleanTerminalOutput(text)]
    /\ UNCHANGED <<sessionVars, tasks, last, calls, net, client, fx, nextH, issued,
                   returned, overlap, listeners, lastIndex, stdout, wired, uncaught,
                   delivered, text, utilVars>>

CleanNext == CleanText

CleanSpec == CleanInit /\ [][CleanNext]_vars

(* --------------------------- govalMetadata ---------------------------- *)

\* the response statuses fetch() resolves with
Statuses == 200..MaxStatus

\* fetch() resolves with a response, whose body parses as JSON or does not,
\* or rejects: with an AbortError when the signal fires, or with another error
FetchOutcomes ==
    [kind : {"response"}, status : Statuses, json : BOOLEAN]
        \cup {[kind |-> k, status |-> 0, json |-> FALSE] : k \in {"AbortError", "TypeError"}}

\* if (res.status > 500) return { error: new Error(Retriable) }
Retriable(status) == status > 500

\* govalMetadata(signal, options), given what fetch() does
govalMetadata(f) ==
    IF f.kind # "response"
    THEN IF f.kind = "AbortError" THEN Ret("Aborted") ELSE Throw(f.kind)
    ELSE IF f.status # 200
    THEN IF Retriable(f.status) THEN Ret("Retriable") ELSE Throw("errorText")
    ELSE IF f.json THEN Ret("metadata") ELSE Throw("SyntaxError")

\* govalMetadata is applied to one outcome of fetch()
MetadataInit ==
    /\ constructed = "none"
    /\ token = ""
    /\ ignore = ""
    /\ user = FALSE
    /\ repl = NoRepl
    /\ channels = [k \in ChanKeys |-> 0]
    /\ connected = FALSE
    /\ persisting = FALSE
    /\ tasks = [t \in Tasks |-> Idle]
    /\ last = NoCall
    /\ calls = 0
    /\ net = [test |-> 0, user |-> 0, repl |-> 0]
    /\ client = [open |-> 0, close |-> 0, destroy |-> 0]
    /\ fx = <<>>
    /\ nextH = 1
    /\ issued = [k \in ChanKeys |-> {}]
    /\ returned = [k \in ChanKeys |-> <<>>]
    /\ overlap = [k \in ChanKeys |-> FALSE]
    /\ listeners = <<>>
    /\ lastIndex = 0
    /\ stdout = <<>>
    /\ wired = <<>>
    /\ uncaught = 0
    /\ delivered = 0
    /\ text = <<>>
    /\ cleaned = NotCleaned
    /\ fetched \in FetchOutcomes
    /\ metadata = NotSettled
    /\ file = NoFile
    /\ remote = NoContent
    /\ wrote = NoOutcome
    /\ readBack = NotRead
    /\ shell = NoShell
    /\ waiter = NoWaiter

\* const metadata = await govalMetadata(signal, options)
FetchMetadata ==
    /\ ~metadata.done
    /\ metadata' = [done |-> TRUE, res |-> govalMetadata(fetched)]
    /\ UNCHANGED <<sessionVars, tasks, last, calls, net, client, fx, nextH, issued,
                   returned, overlap, listeners, lastIndex, stdout, wired, uncaught,
                   delivered, text, cleaned, fetched, fileVars, stopVars>>

MetadataNext == FetchMetadata

MetadataSpec == MetadataInit /\ [][MetadataNext]_vars

(* ---------------------------- write, read ----------------------------- *)

\* A string is a sequence of UTF-16 code units, a Buffer a sequence of bytes.
\* The code units the model uses: a, e acute, the euro sign, the two halves
\* of the surrogate pair of U+1F600, and the replacement character
CodeUnits == {97, 233, 8364, 55357, 56832, 65533}

\* the bytes the model's buffers are made of: a, a two-byte lead, a
\* continuation byte, and a byte no UTF-8 text holds
Bytes == {97, 195, 169, 255}

IsHigh(u) == u \in 55296..56319

IsLow(u) == u \in 56320..57343

\* an encoder that writes every code point as one byte
Utf8OneByte(cp) == <<cp % 256>>

\* the UTF-8 bytes of a code point
Utf8(cp) ==
    IF cp < 128 THEN <<cp>>
    ELSE IF cp < 2048 THEN <<192 + (cp \div 64), 128 + (cp % 64)>>
    ELSE IF cp < 65536
    THEN <<224 + (cp \div 4096), 128 + ((cp \div 64) % 64), 128 + (cp % 64)>>
    ELSE <<240 + (cp \div 262144), 128 + ((cp \div 4096) % 64),
           128 + ((cp \div 64) % 64), 128 + (cp % 64)>>

\* new TextEncoder().encode(file): a surrogate pair is one code point, a
\* surrogate on its own is written as U+FFFD
RECURSIVE TextEncode(_)
TextEncode(str) ==
    IF str = <<>> THEN <<>>
    ELSE IF IsHigh(str[1]) /\ Len(str) >= 2 /\ IsLow(str[2])
    THEN Utf8(65536 + (str[1] - 55296) * 1024 + (str[2] - 56320))
            \o TextEncode(SubSeq(str, 3, Len(str)))
    ELSE IF IsHigh(str[1]) \/ IsLow(str[1])
    THEN Utf8(65533) \o TextEncode(Tail(str))
    ELSE Utf8(str[1]) \o TextEncode(Tail(str))

\* the number of continuation bytes a lead byte asks for, 0 for a byte that
\* is no lead
Needed(b) ==
    IF b \in 194..223 THEN 1
    ELSE IF b \in 224..239 THEN 2
    ELSE IF b \in 240..244 THEN 3
    ELSE 0

\* the values the n-th byte after the lead byte b may take
Continues(b, n, c) ==
    IF n = 1 /\ b = 224 THEN c \in 160..191
    ELSE IF n = 1 /\ b = 237 THEN c \in 128..159
    ELSE IF n = 1 /\ b = 240 THEN c \in 144..191
    ELSE IF n = 1 /\ b = 244 THEN c \in 128..143
    ELSE c \in 128..191

\* how many of the bytes that follow the lead byte of bs continue it
RECURSIVE Continued(_, _)
Continued(bs, n) ==
    IF n < Needed(bs[1]) /\ Len(bs) >= n + 2 /\ Continues(bs[1], n + 1, bs[n + 2])
    THEN Continued(bs, n + 1)
    ELSE n

\* the code point of a complete sequence of 1 + k bytes
CodePoint(bs, k) ==
    IF k = 1 THEN (bs[1] - 192) * 64 + (bs[2] - 128)
    ELSE IF k = 2 THEN (bs[1] - 224) * 4096 + (bs[2] - 128) * 64 + (bs[3] - 128)
    ELSE (bs[1] - 240) * 262144 + (bs[2] - 128) * 4096 + (bs[3] - 128) * 64
            + (bs[4] - 128)

\* the code units of a code point
Units(cp) ==
    IF cp < 65536 THEN <<cp>>
    ELSE <<55296 + ((cp - 65536) \div 1024), 56320 + ((cp - 65536) % 1024)>>

\* Buffer.from(content).toString('utf8'): each complete sequence gives its
\* code point, each byte or started sequence that is none gives U+FFFD
RECURSIVE Utf8Decode(_)
Utf8Decode(bs) ==
    IF bs = <<>> THEN <<>>
    ELSE IF bs[1] < 128 THEN <<bs[1]>> \o Utf8Decode(Tail(bs))
    ELSE LET k == Needed(bs[1])
             m == Continued(bs, 0)
         IN IF k > 0 /\ m = k
            THEN Units(CodePoint(bs, k)) \o Utf8Decode(SubSeq(bs, k + 2, Len(bs)))
            ELSE <<65533>> \o Utf8Decode(SubSeq(bs, m + 2, Len(bs)))

\* the strings and the buffers write() is handed
Files ==
    {[kind |-> "string", data |-> d] :
        d \in UNION {[1..k -> CodeUnits] : k \in 0..MaxChars}}
    \cup {[kind |-> "buffer", data |-> d] :
        d \in UNION {[1..k -> Bytes] : k \in 0..MaxChars}}

\* content = Buffer.isBuffer(file) ? file : new TextEncoder().encode(file)
Content(f) == IF f.kind = "buffer" THEN f.data ELSE TextEncode(f.data)

\* write() is handed a string or a buffer
FileInit ==
    /\ constructed = "none"
    /\ token = ""
    /\ ignore = ""
    /\ user = FALSE
    /\ repl = NoRepl
    /\ channels = [k \in ChanKeys |-> 0]
    /\ connected = FALSE
    /\ persisting = FALSE
    /\ tasks = [t \in Tasks |-> Idle]
    /\ last = NoCall
    /\ calls = 0
    /\ net = [test |-> 0, user |-> 0, repl |-> 0]
    /\ client = [open |-> 0, close |-> 0, destroy |-> 0]
    /\ fx = <<>>
    /\ nextH = 1
    /\ issued = [k \in ChanKeys |-> {}]
    /\ returned = [k \in ChanKeys |-> <<>>]
    /\ overlap = [k \in ChanKeys |-> FALSE]
    /\ listeners = <<>>
    /\ lastIndex = 0
    /\ stdout = <<>>
    /\ wired = <<>>
    /\ uncaught = 0
    /\ delivered = 0
    /\ text = <<>>
    /\ cleaned = NotCleaned
    /\ fetched = NoFetch
    /\ metadata = NotSettled
    /\ file \in Files
    /\ remote = NoContent
    /\ wrote = NoOutcome
    /\ readBack = NotRead
    /\ shell = NoShell
    /\ waiter = NoWaiter

\* write(path, file): the request carries the content; a remote that answers
\* ok has stored it, one that answers with an error has not
WriteFile(ok) ==
    /\ wrote = NoOutcome
    /\ IF ok
       THEN /\ remote' = [present |-> TRUE, content |-> Content(file)]
            /\ wrote' = Ret("true")
       ELSE /\ wrote' = Throw("CrosisError: error")
            /\ UNCHANGED remote
    /\ UNCHANGED <<sessionVars, tasks, last, calls, net, client, fx, nextH, issued,
                   returned, overlap, listeners, lastIndex, stdout, wired, uncaught,
                   delivered, text, cleaned, fetched, metadata, file, readBack, stopVars>>

\* read(path, encoding): the remote answers with the content it stores, or
\* with an error when it stores none
ReadFile(enc) ==
    /\ wrote # NoOutcome
    /\ ~readBack.done
    /\ readBack' =
          IF ~remote.present
          THEN [done |-> TRUE, enc |-> enc, kind |-> "throw", data |-> <<>>]
          ELSE IF enc = "utf8"
          THEN [done |-> TRUE, enc |-> enc, kind |-> "string",
                data |-> Utf8Decode(remote.content)]
          ELSE [done |-> TRUE, enc |-> enc, kind |-> "buffer", data |-> remote.content]
    /\ UNCHANGED <<sessionVars, tasks, last, calls, net, client, fx, nextH, issued,
                   returned, overlap, listeners, lastIndex, stdout, wired, uncaught,
                   delivered, text, cleaned, fetched, metadata, file, remote, wrote,
                   stopVars>>

FileNext ==
    \/ \E ok \in BOOLEAN : WriteFile(ok)
    \/ \E enc \in {"utf8", ""} : ReadFile(enc)

FileSpec == FileInit /\ [][FileNext]_vars

(* ======================================================================= *)
(*                          the claims, C1 .. C10                          *)
(* ======================================================================= *)

\* the first answer the transport gave for a cache key delivered a channel
FirstOpenOk(k) ==
    /\ OpenAnswers(k) # {}
    /\ \E i \in OpenAnswers(k) :
          /\ fx[i].type = "opened"
          /\ \A j \in OpenAnswers(k) : i <= j

\* every handle channel() returned for a cache key is the same handle
SameHandle(k) == \A i \in 1..Len(returned[k]) : returned[k][i] = returned[k][1]

\* C1: when the channel() calls for a cache key follow one another (none is
\* entered while an open of that key is unanswered) and the first open of the
\* key succeeded, every call returns the same handle and the transport has
\* received exactly one openChannel request for the key.
C1_SequentialIdempotent ==
    \A k \in ChanKeys :
        (~overlap[k] /\ FirstOpenOk(k)) => (OpenRequests(k) = 1 /\ SameHandle(k))

\* C1 witness: a key opened once and then returned a second time from the cache
C1_Witness ==
    \E k \in ChanKeys : ~overlap[k] /\ FirstOpenOk(k) /\ Len(returned[k]) >= 2

\* C2 (as claimed): a second channel() call for a key whose open is still
\* unanswered makes no second openChannel request, so at most one request per
\* key is outstanding, at most one handle per key is ever delivered, and
\* every caller gets the same handle.
C2_SingleFlight ==
    \A k \in ChanKeys :
        /\ Cardinality(Opening(k)) <= 1
        /\ Cardinality(issued[k]) <= 1
        /\ SameHandle(k)

\* C3 (as claimed): while connected is false no step of a channel-using
\* method makes a call on the transport's channels (openChannel, send,
\* request, onCommand) or returns a handle from the registry.
C3_NoChannelUseUnlessConnected ==
    [][~connected => (ClientCalls(fx') = ClientCalls(fx) /\ returned' = returned)]_vars

\* C4: connect() resolves only in the step in which the open callback
\* delivers a channel; in that step channels['chan0'] becomes that channel
\* and connected becomes true; connected turns true in no other step, and is
\* true only when a root channel has been registered.
C4_ConnectResolves ==
    /\ [](connected => (channels["chan0"] # 0 /\ client.open > 0))
    /\ [][\A t \in Tasks :
            /\ (tasks[t].op = "connect" /\ tasks'[t].pc = "idle"
                    /\ last'.res.kind = "return")
                 => (/\ tasks[t].pc = "awaitOpen"
                     /\ channels'["chan0"] = nextH
                     /\ nextH' = nextH + 1
                     /\ connected')
            /\ (~connected /\ connected')
                 => \E u \in Tasks : tasks[u].pc = "awaitOpen" /\ tasks'[u].pc = "idle"
         ]_vars

\* C4 witness: a connect() has resolved and the session is connected
C4_Witness ==
    /\ last = Settled(0, "connect", Ret("void"))
    /\ connected
    /\ channels["chan0"] # 0

\* C5: close(), disconnect() and destroy() called while connected is false
\* throw the 'not connected' error, make no call on the transport and leave
\* connected false.
C5_CloseWhenNotConnected ==
    [][\A t \in Tasks, op \in CloseOps :
          (CloseCall(t, op) /\ ~connected)
             => (/\ last' = Settled(t, op, Throw(NotConnectedMessage))
                 /\ client' = client
                 /\ ~connected')
      ]_vars

\* C5 witness: a close that threw on a session on which connect() was never called
C5_Witness ==
    /\ last.op \in CloseOps
    /\ last.res = Throw(NotConnectedMessage)
    /\ net.test = 0
    /\ client = [open |-> 0, close |-> 0, destroy |-> 0]

\* C6: close() called while connected is true calls the transport's close
\* exactly once (and not destroy), returns, and sets connected to false;
\* connected stays false as long as that close is the latest settled call,
\* and a close() made then throws.
C6_CloseWhenConnected ==
    /\ []((last.op \in CloseOps /\ last.res.kind = "return") => ~connected)
    /\ [][\A t \in Tasks :
            /\ (CloseCall(t, "close") /\ connected)
                 => (/\ client' = [client EXCEPT !.close = @ + 1]
                     /\ ~connected'
                     /\ last' = Settled(t, "close", Ret("void")))
            /\ (CloseCall(t, "close") /\ last = Settled(t, "close", Ret("void")))
                 => last'.res = Throw(NotConnectedMessage)
         ]_vars

\* C6 witness: a close() that returned after one call of the transport's close
C6_Witness ==
    /\ last = Settled(0, "close", Ret("void"))
    /\ client.close = 1
    /\ ~connected

C8_Persist ==
    [][\A t \in Tasks :
          (tasks[t].pc = "awaitResp" /\ tasks[t].op = "persist")
             => \A res \in Responses :
                   Response(t, res)
                      => (/\ (last'.res = Ret("true")) <=> (res.ok /\ res.error = "")
                          /\ (last'.res = Ret("true")) => persisting'
                          /\ (~res.ok /\ res.error = "")
                                => (/\ last'.res = Ret("false")
                                    /\ persisting' = persisting))
      ]_vars

\* C8 witness: persist() returned true and the flag is set
C8_Witness == last = Settled(0, "persist", Ret("true")) /\ persisting

\* the responses that carry an error field
WithError == {res \in Responses : res.error # ""}

Lacking(op) == IF op \in ExecOps THEN ~repl.runner ELSE ~repl.packager3

\* C10: a capability-gated method called on a workspace whose descriptor
\* lacks the capability returns false and changes nothing: no call reaches
\* the transport (no openChannel, send, request, listener), the registry and
\* the flags are as before and no call is left in flight.
C10_GatedNoEffect ==
    [][\A t \in Tasks :
          (repl.set /\ tasks[t].pc = "idle" /\ calls' = calls + 1)
             => \A op \in {o \in GatedOps : Lacking(o)}, flag \in {0, 1}, n \in {0, 1} :
                   GatedCall(t, op, flag, n)
                      => (/\ last' = Settled(t, op, Ret("false"))
                          /\ UNCHANGED <<fx, channels, issued, returned, tasks,
                                         client, connected, persisting>>)
      ]_vars

\* C10 witness: execStop returned false on a workspace without a runner, the
\* transport's channels untouched
C10_Witness ==
    /\ last = Settled(0, "execStop", Ret("false"))
    /\ repl.set /\ ~repl.runner
    /\ fx = <<>>

(* ======================================================================= *)
(*                          the claims, C11 .. C20                         *)
(* ======================================================================= *)

\* the text ends with the shell prompt, ~/<name>$ and a blank
EndsWithPrompt(s) == \E i \in 1..Len(s) : PromptEndAt(s, i) = Len(s)

\* the number of chunks handed to listener l that end with the shell prompt
\* once their escape sequences are taken out
PromptChunks(l) ==
    Cardinality({k \in 1..Len(l.got) : EndsWithPrompt(StripAnsi(l.got[k]))})

\* C11 (as claimed): in execShell and execInterp every chunk that ends with
\* the shell prompt, its escape sequences taken out, adds exactly one to
\* promptAppearance, so the promise stays pending before the second such chunk
\* and, unless its deadline came first, is resolved from the second one on.
C11_EveryPromptCounted ==
    \A i \in 1..Len(listeners) :
        listeners[i].op \in {"execShell", "execInterp"}
           => (/\ listeners[i].count = PromptChunks(listeners[i])
               /\ listeners[i].state = "resolved" => PromptChunks(listeners[i]) >= 2
               /\ (PromptChunks(listeners[i]) >= 2 /\ listeners[i].deadline # "fired")
                     => listeners[i].state = "resolved")

\* the chunks of the scenario: the echoed command, hi\r\n, and two prompts
EchoHiScenario == <<EchoChunk, OutChunk, PromptChunk, PromptChunk>>

\* C12 (as claimed): an execShell("echo hi") whose listener was handed the
\* echoed command, then hi\r\n, then two prompt chunks, has returned hi.
C12_EchoHi ==
    \A i \in 1..Len(listeners) :
        (/\ listeners[i].op = "execShell"
         /\ listeners[i].exec = Command
         /\ listeners[i].deadline # "fired"
         /\ listeners[i].got = EchoHiScenario)
           => (listeners[i].state = "resolved" /\ listeners[i].value = <<"h", "i">>)

\* C13: when a listener of execShell or execInterp is handed a chunk equal to
\* its command followed by \r\n, its content and its promptAppearance are as
\* before (and so are the state of the prompt pattern and its promise).
C13_EchoSuppressed ==
    [][\A i \in 1..Len(listeners) :
          (/\ listeners[i].op \in {"execShell", "execInterp"}
           /\ Len(listeners'[i].got) = Len(listeners[i].got) + 1
           /\ listeners'[i].got[Len(listeners'[i].got)] = listeners[i].exec \o <<CR, LF>>)
             => (/\ listeners'[i].content = listeners[i].content
                 /\ listeners'[i].count = listeners[i].count
                 /\ listeners'[i].state = listeners[i].state
                 /\ lastIndex' = lastIndex)
      ]_vars

\* C13 witness: the echo arrived after other output, and the content is that
\* output alone
C13_Witness ==
    \E i \in 1..Len(listeners) :
        /\ listeners[i].op = "execShell"
        /\ listeners[i].got = <<OutChunk, EchoChunk>>
        /\ listeners[i].content = OutChunk

\* the first and the last line of a text
FirstLine(s) == Head(Split(s, LF))

LastLine(s) == Split(s, LF)[Len(Split(s, LF))]

\* the text strictly between the first and the last line feed of s
Between(s) ==
    LET at == {i \in 1..Len(s) : s[i] = LF}
    IN IF Cardinality(at) < 2 THEN <<>>
       ELSE SubSeq(s, Least(at) + 1, Greatest(at) - 1)

C16_SilentRunResolves == \A i \in 1..MaxDrivers : []<>(~Silent(i))

\* C17: in an execRun called with a timeout every output chunk handed to the
\* listener leaves the timer running anew; when the timer comes due while
\* promptAppearance is below 2 the promise is resolved with the cleaning of
\* the content accumulated so far and the caller gets it; the promise is
\* never rejected.
C17_InactivityResolves ==
    [][\A i \in 1..Len(listeners) :
          (listeners[i].op = "execRun" /\ listeners[i].timer # "undefined")
             => (/\ Len(listeners'[i].got) = Len(listeners[i].got) + 1
                       => listeners'[i].timer = "armed"
                 /\ (/\ listeners[i].timer = "armed"
                     /\ listeners'[i].timer = "idle"
                     /\ listeners[i].count < 2)
                       => (/\ listeners'[i].state = "resolved"
                           /\ listeners'[i].value = cleanTerminalOutput(listeners[i].content)
                           /\ tasks'[listeners[i].task] = Idle
                           /\ last' = Settled(listeners[i].task, "execRun", Ret("text")))
                 /\ listeners'[i].state # "rejected")
      ]_vars

\* C17 witness: the timer came due after one chunk and a hint, and the
\* promise is resolved with the cleaning of both
C17_Witness ==
    \E i \in 1..Len(listeners) :
        /\ listeners[i].op = "execRun"
        /\ listeners[i].count = 1
        /\ listeners[i].state = "resolved"
        /\ listeners[i].content = LinesChunk \o HintNote(HintText)
        /\ listeners[i].value # <<>>

\* C18 (as claimed): an execRun called without a timeout is resolved once its
\* listener has been handed two output chunks.
C18_RunResolvesAtSecond ==
    \A i \in 1..Len(listeners) :
        (/\ listeners[i].op = "execRun"
         /\ listeners[i].timer = "undefined"
         /\ Len(listeners[i].got) >= 2)
           => listeners[i].state = "resolved"

\* the texts written to stdout that are not hint lines
OutputWrites == SelectSeq(stdout, LAMBDA w : w # HintLine(HintText))

\* C19 (as claimed): with one streaming driver called, the chunks written to
\* stdout are the chunks its listener was handed, in that order; its promise
\* is pending before the second chunk that is a prompt sighting (any chunk in
\* execRunStream, a chunk ending with the shell prompt in the others) and,
\* unless its deadline came first, resolved from that chunk on.
C19_StreamForwards ==
    Len(listeners) = 1
       => (/\ OutputWrites = listeners[1].got
           /\ LET n == IF listeners[1].op \in RunOps THEN Len(listeners[1].got)
                       ELSE PromptChunks(listeners[1])
              IN /\ listeners[1].state = "resolved" => n >= 2
                 /\ (n >= 2 /\ listeners[1].deadline # "fired")
                       => listeners[1].state = "resolved")

\* C20: every streaming driver leaves a 'data' handler on stdin, and no step
\* takes one away; at each 'data' event every handler, whether the promise of
\* its driver has settled or not, sends the input and then '\r\n' on its
\* channel.
C20_WiringPersists ==
    /\ [](\A i \in 1..Len(listeners) :
             listeners[i].op \in StreamOps
                => \E k \in 1..Len(wired) : wired[k] = listeners[i].h)
    /\ [][/\ Len(wired') >= Len(wired)
          /\ SubSeq(wired', 1, Len(wired)) = wired
          /\ \A i \in 1..Len(listeners) :
                (listeners[i].op \in StreamOps /\ StdinData)
                   => \E k \in 1..(Len(fx') - Len(fx) - 1) :
                         /\ fx'[Len(fx) + k] = SendFx(listeners[i].h, "input")
                         /\ fx'[Len(fx) + k + 1] = SendFx(listeners[i].h, "crlf")
         ]_vars

\* C20 witness: a 'data' event was forwarded after the driver's promise had
\* settled; the last two sends on its channel are the input and '\r\n'
C20_Witness ==
    \E i \in 1..Len(listeners) :
        /\ listeners[i].op \in StreamOps
        /\ listeners[i].state = "resolved"
        /\ listeners[i].late > 0
        /\ Len(fx) >= 2
        /\ fx[Len(fx) - 1] = SendFx(listeners[i].h, "input")
        /\ fx[Len(fx)] = SendFx(listeners[i].h, "crlf")

(* ------------------------ the claims, C21 .. C30 ---------------------- *)

\* the calls of execStop that are suspended on the opening of the run channel
Stopping == {t \in Tasks : tasks[t].op = "execStop" /\ tasks[t].pc = "awaitChan"}

\* C21: on a workspace with a runner, a call of execStop sends one clear
\* message on the run channel and returns true: at once when the channel is
\* stored, and otherwise as soon as the channel is opened, without an event
\* of the channel in between. No step of the call registers a listener or
\* touches the listener, the content or the counter of a command in flight.
C21_StopOnlyClears ==
    [][/\ (calls' = calls + 1 /\ tasks' = tasks /\ repl.runner)
            => (/\ channels["shellrun2"] # 0
                /\ fx' = Append(fx, SendFx(channels["shellrun2"], "clear"))
                /\ last' = Settled(0, "execStop", Ret("true"))
                /\ UNCHANGED <<listeners, lastIndex, stdout, wired, delivered>>)
       /\ \A t \in Tasks :
            /\ (tasks[t].pc = "idle" /\ tasks'[t].op = "execStop")
                  => (/\ fx' = Append(fx, OpenChannelFx("shellrun2", NoName))
                      /\ UNCHANGED <<last, listeners, lastIndex, stdout, wired, delivered>>)
            /\ (t \in Stopping /\ tasks'[t] # tasks[t])
                  => (/\ tasks'[t] = Idle
                      /\ fx' = fx \o <<OpenedFx(nextH, "shellrun2", NoName),
                                        SendFx(nextH, "clear")>>
                      /\ last' = Settled(t, "execStop", Ret("true"))
                      /\ UNCHANGED <<listeners, lastIndex, stdout, wired, delivered>>)
      ]_vars

\* C21 witness: execStop has returned true, its clear message is the last
\* thing sent, and the command in flight on that channel still has its
\* listener with one prompt counted and its promise pending
C21_Witness ==
    /\ last = Settled(0, "execStop", Ret("true"))
    /\ fx[Len(fx)] = SendFx(channels["shellrun2"], "clear")
    /\ \E i \in 1..Len(listeners) :
          /\ listeners[i].h = channels["shellrun2"]
          /\ listeners[i].count = 1
          /\ listeners[i].content # <<>>
          /\ listeners[i].state = "pending"
          /\ tasks[listeners[i].task].pc = "awaitPrompt"

\* the session has been closed by close()
Closed == client.close > 0 /\ ~connected

\* C22 (as claimed): a command whose promise is pending when the session is
\* closed does not stay pending for ever: its promise is eventually rejected.
C22_ClosedSettles ==
    \A i \in 1..MaxDrivers :
        (Closed /\ i <= Len(listeners) /\ listeners[i].state = "pending")
            ~> (i <= Len(listeners) /\ listeners[i].state = "rejected")

\* C23 (as claimed): a handle that channel() returns on a connected session
\* was opened in the current connection: the transport numbers its handles
\* in the order it hands them out, so the handle is younger than chan0, the
\* channel the current connection was opened with.
C23_NoStaleHandle ==
    [][\A k \in ChanKeys \ {"chan0"} :
          (connected /\ Len(returned'[k]) = Len(returned[k]) + 1)
             => returned'[k][Len(returned'[k])] > channels["chan0"]
      ]_vars

\* the step in which the open request of task t is answered with an error
OpenFailed(t) ==
    /\ tasks[t].pc = "awaitChan"
    /\ tasks'[t].pc # "awaitChan"
    /\ Len(fx') = Len(fx) + 1
    /\ fx'[Len(fx')].type = "openError"

\* an earlier open request for cache key k was answered with an error
FailedBefore(k) ==
    \E i \in 1..Len(fx) :
        fx[i].type = "openError" /\ CacheKey(fx[i].what, fx[i].name) = k

\* the step in which task t calls a method that asks for the channel of key k
AsksFor(t, k) ==
    /\ tasks[t].pc = "idle"
    /\ calls' = calls + 1
    /\ \/ tasks'[t].pc = "awaitChan" /\ CacheKey(tasks'[t].svc, tasks'[t].name) = k
       \/ Len(returned'[k]) = Len(returned[k]) + 1

\* every open request is an answered one or the one a suspended call waits for
OneOpenPerCall ==
    Cardinality({i \in 1..Len(fx) : fx[i].type = "openChannel"})
        = Cardinality({i \in 1..Len(fx) : fx[i].type \in {"opened", "openError"}})
            + Cardinality({t \in Tasks : tasks[t].pc = "awaitChan"})

\* C24: when the transport answers an open request with an error, the call
\* that made it rejects with that error itself, makes no further request (each
\* call makes exactly one), and stores nothing in the registry; a later
\* request for a key that still has no entry makes a new open request.
C24_OpenErrorRejects ==
    /\ []OneOpenPerCall
    /\ [][\A t \in Tasks :
            /\ OpenFailed(t) =>
                  /\ tasks'[t] = Idle
                  /\ \E e \in OpenErrors : last' = Settled(t, tasks[t].op, Throw(e))
                  /\ ClientCalls(fx') = ClientCalls(fx)
                  /\ channels' = channels
            /\ \A k \in ChanKeys :
                  (FailedBefore(k) /\ channels[k] = 0 /\ AsksFor(t, k)) =>
                      /\ tasks'[t].pc = "awaitChan"
                      /\ fx' = Append(fx, OpenChannelFx(tasks'[t].svc, tasks'[t].name))
         ]_vars

\* a call rejected with the transport's error, the key without an entry, and a
\* new open request made for the key after the failure
C24_Witness ==
    \E k \in ChanKeys, i \in 1..Len(fx), j \in 1..Len(fx) :
        /\ i < j
        /\ fx[i].type = "openError" /\ CacheKey(fx[i].what, fx[i].name) = k
        /\ fx[j].type = "openChannel" /\ CacheKey(fx[j].what, fx[j].name) = k
        /\ channels[k] = 0
        /\ ~\E n \in 1..Len(fx) :
              fx[n].type = "opened" /\ CacheKey(fx[n].what, fx[n].name) = k

Lookups(f) == SelectSeq(f, LAMBDA e : e.type = "request" /\ e.what = "packageInfo")

\* C26: packageAdd and packageRemove called with n names look up exactly
\* those names, one lookup per name, before they send their one request.
C26_OneLookupPerName ==
    [][\A t \in Tasks :
          (tasks[t].pc = "awaitChan" /\ tasks'[t].pc = "awaitInfos") =>
              LET new == SubSeq(Lookups(fx'), Len(Lookups(fx)) + 1, Len(Lookups(fx')))
              IN /\ Len(new) = tasks[t].n
                 /\ \A j \in 1..Len(new) : new[j].name = PackageNames[j]
      ]_vars

\* C27: govalMetadata raises only for response statuses that are neither 2xx
\* nor 5xx: for every 5xx status, 500 included, it returns the retriable
\* error outcome, and for an aborted fetch the aborted error outcome.
C27_RaisesOnlyOutside2xx5xx ==
    metadata.done =>
        /\ (fetched.kind = "response" /\ fetched.json /\ metadata.res.kind = "throw")
              => fetched.status \notin (200..299) \cup (500..599)
        /\ (fetched.kind = "response" /\ fetched.status \in 500..599)
              => metadata.res = Ret("Retriable")
        /\ fetched.kind = "AbortError" => metadata.res = Ret("Aborted")

\* the file was written and acknowledged, and read back with encoding enc
ReadAfterWrite(enc) == wrote = Ret("true") /\ readBack.done /\ readBack.enc = enc

\* no surrogate of the string stands without its other half
RECURSIVE WellFormed(_)
WellFormed(str) ==
    IF str = <<>> THEN TRUE
    ELSE IF IsHigh(str[1])
    THEN Len(str) >= 2 /\ IsLow(str[2]) /\ WellFormed(SubSeq(str, 3, Len(str)))
    ELSE ~IsLow(str[1]) /\ WellFormed(Tail(str))

\* C28: after write(path, s) is acknowledged by a storing remote,
\* read(path, 'utf8') returns s, and after write(path, b) of a Buffer b,
\* read(path) returns a Buffer equal to b.
C28_RoundTrip ==
    /\ (file.kind = "string" /\ ReadAfterWrite("utf8"))
          => (readBack.kind = "string" /\ readBack.data = file.data)
    /\ (file.kind = "buffer" /\ ReadAfterWrite(""))
          => (readBack.kind = "buffer" /\ readBack.data = file.data)

\* C28 as the code has it: the string comes back when none of its surrogates
\* stands alone (one that does comes back as U+FFFD); the Buffer always does.
C28_RoundTripWellFormed ==
    /\ (file.kind = "string" /\ ReadAfterWrite("utf8"))
          => /\ readBack.kind = "string"
             /\ WellFormed(file.data) => readBack.data = file.data
             /\ ~WellFormed(file.data) =>
                    (readBack.data # file.data /\ WellFormed(readBack.data))
    /\ (file.kind = "buffer" /\ ReadAfterWrite(""))
          => (readBack.kind = "buffer" /\ readBack.data = file.data)

\* a string of a surrogate pair and a character of two bytes read back as
\* written
C28_Witness ==
    /\ file = [kind |-> "string", data |-> <<55357, 56832, 233>>]
    /\ ReadAfterWrite("utf8")
    /\ remote.content = <<240, 159, 152, 128, 195, 169>>
    /\ readBack.data = file.data

\* what the buffer of listener l keeps of an event: nothing of the echo of
\* the command, the raw text of any other output chunk, the note of a hint
Kept(l, ev) ==
    IF ev.output # <<>>
    THEN IF l.op # "execRun" /\ ev.output = l.exec \o <<CR, LF>> THEN <<>> ELSE ev.output
    ELSE <<LF, "H", "i", "n", "t", ":", SP, SP>> \o ev.hint

\* what the buffer keeps of the first n events listener l was handed
RECURSIVE KeptOf(_, _)
KeptOf(l, n) == IF n = 0 THEN <<>> ELSE KeptOf(l, n - 1) \o Kept(l, l.seen[n])

HintSeen(i) ==
    /\ i <= Len(listeners)
    /\ Len(listeners') = Len(listeners)
    /\ Len(listeners'[i].seen) = Len(listeners[i].seen) + 1
    /\ listeners'[i].seen[Len(listeners'[i].seen)].output = <<>>

\* C30: a hint handed to a buffered driver appends exactly one annotated
\* line, "Hint: " followed by the hint text, to the buffer, leaves the count of
\* prompt sightings as it is, and so never settles the promise.
C30_HintAppendsLine ==
    [][\A i \in 1..MaxDrivers :
          (HintSeen(i) /\ listeners[i].op \in BufferedOps) =>
              LET hint == listeners'[i].seen[Len(listeners'[i].seen)].hint
              IN /\ listeners'[i].content =
                       listeners[i].content \o <<LF, "H", "i", "n", "t", ":", SP>> \o hint
                 /\ listeners'[i].count = listeners[i].count
                 /\ listeners'[i].state = listeners[i].state
      ]_vars

(* ------------------------ the claims, C31 .. C40 ---------------------- *)

\* the step in which the driver called by t runs the code after its await
Invoked(t) == tasks[t].pc # "awaitPrompt" /\ tasks'[t].pc = "awaitPrompt"

\* the number of entries of f of type ty that say what
Count(f, ty, what) ==
    Cardinality({j \in 1..Len(f) : f[j].type = ty /\ f[j].what \in what})

\* C31: an invocation of a run / exec driver installs its listener before it
\* sends anything, sends the clear message before the run trigger or the
\* input, and sends exactly one clear and one run trigger or input; no other
\* step installs a listener or sends a clear or a run trigger.
C31_ListenerThenClearThenTrigger ==
    [][/\ \A t \in Tasks :
            Invoked(t) =>
               LET old == ClientCalls(fx)
                   all == ClientCalls(fx')
                   new == SubSeq(all, Len(old) + 1, Len(all))
                   h == tasks'[t].h
                   op == tasks'[t].op
                   Ls == {j \in 1..Len(new) : new[j] = OnCommandFx(h, op)}
                   Cs == {j \in 1..Len(new) : new[j] = SendFx(h, "clear")}
                   Ts == {j \in 1..Len(new) :
                            new[j] = SendFx(h, IF op \in RunOps THEN "runMain" ELSE "input")}
                   Ss == {j \in 1..Len(new) : new[j].type \in {"send", "onCommand"}}
               IN /\ SubSeq(all, 1, Len(old)) = old
                  /\ Cardinality(Ls) = 1 /\ Cardinality(Cs) = 1 /\ Cardinality(Ts) = 1
                  /\ Ss = Ls \cup Cs \cup Ts
                  /\ \A l \in Ls, c \in Cs, x \in Ts : l < c /\ c < x
       /\ (\A t \in Tasks : ~Invoked(t)) =>
               /\ Count(fx', "onCommand", ExecOps) = Count(fx, "onCommand", ExecOps)
               /\ Count(fx', "send", {"clear", "runMain"})
                     = Count(fx, "send", {"clear", "runMain"})
      ]_vars

\* execShell has been invoked: listener, clear and input are the last three
\* things its channel was handed
C31_Witness ==
    \E i \in 1..Len(listeners) :
        /\ listeners[i].op = "execShell"
        /\ Len(fx) >= 3
        /\ SubSeq(fx, Len(fx) - 2, Len(fx))
              = <<OnCommandFx(listeners[i].h, "execShell"),
                  SendFx(listeners[i].h, "clear"), SendFx(listeners[i].h, "input")>>

RECURSIVE OwnSightings(_, _, _)
OwnSightings(l, k, li) ==
    IF k > Len(l.seen) THEN 0
    ELSE IF l.seen[k].output = <<>> \/ l.seen[k].output = l.exec \o <<CR, LF>>
    THEN OwnSightings(l, k + 1, li)
    ELSE LET s == PromptTest(StripAnsi(l.seen[k].output), li)
         IN (IF s.found THEN 1 ELSE 0) + OwnSightings(l, k + 1, s.lastIndex)

\* C33: no reduction state is shared between invocations: what an execShell
\* or execInterp invocation has counted, and so the chunk at which it
\* resolves, is determined by its own command text and its own events, with
\* the prompt search starting afresh at the invocation.
C33_OwnStateOnly ==
    \A i \in 1..Len(listeners) :
        listeners[i].op \in {"execShell", "execInterp"}
            => listeners[i].count = OwnSightings(listeners[i], 1, 0)

\* C34: once the promise of a buffered driver has settled, its buffer is
\* discarded: no later event grows the buffer of that invocation or arms its
\* inactivity timer again (and so its cleaning is not run again).
C34_SettledIsDiscarded ==
    [][\A i \in 1..Len(listeners) :
          (listeners[i].op \in BufferedOps /\ listeners[i].state # "pending")
             => /\ listeners'[i].content = listeners[i].content
                /\ listeners'[i].count = listeners[i].count
                /\ listeners'[i].timer = "armed" => listeners[i].timer = "armed"
      ]_vars

\* the event shellStop was handed in this step, if it was handed one
ShellGot == shell'.got[Len(shell'.got)]

\* shellStop was handed one more event in this step
ShellStep == shell.on /\ Len(shell'.got) = Len(shell.got) + 1

\* C35: in shellStop an output chunk that is a prefix of what remains of
\* lastLine is not forwarded to stdout and is removed from the front of
\* lastLine; every other chunk is forwarded verbatim and leaves lastLine as it
\* is; each input event resets lastLine to the input followed by \r\r\n
C35_EchoPrefixSwallowed ==
    [][ShellStep =>
        LET ev == ShellGot
            ll == shell.lastLine
            c  == ev.output IN
        IF ev.input # <<>>
        THEN shell'.lastLine = ev.input \o <<CR, CR, LF>>
        ELSE IF c = <<>> THEN shell'.lastLine = ll
        ELSE IF Len(c) <= Len(ll) /\ SubSeq(ll, 1, Len(c)) = c
        THEN /\ stdout' = stdout
             /\ shell'.lastLine = SubSeq(ll, Len(c) + 1, Len(ll))
        ELSE /\ SubSeq(stdout', 1, Len(stdout) + Len(c)) = stdout \o c
             /\ shell'.lastLine = ll]_vars

\* "ls" was typed, the echo "l" was swallowed and "hi" was forwarded
C35_Witness ==
    /\ Len(shell.got) = 3
    /\ shell.got[1].input = <<"l", "s">>
    /\ shell.got[2].output = <<"l">>
    /\ shell.got[3].output = OutChunk
    /\ shell.lastLine = <<"s", CR, CR, LF>>
    /\ stdout = OutChunk

\* the event at position k decides the promise of cmdTimeout: the timer coming
\* due, or an exit of the channel itself
Decides(k) ==
    \/ waiter.got[k].kind = "timer"
    \/ waiter.got[k].kind = "cmd" /\ waiter.got[k].state = 0 /\ waiter.got[k].session = 0

\* the positions of the deciding events
Deciding == {k \in 1..Len(waiter.got) : Decides(k)}

\* C36: the promise of cmdTimeout settles at most once: it resolves with the
\* ok flag of the first exit event (state 0) that is not scoped to a
\* sub-session, and the timer is cancelled, or it rejects when the timer fires
\* first; scoped exit events never settle it, and an exit event after the
\* timer has fired has no effect
C36_SettlesOnce ==
    waiter.on =>
        /\ waiter.settles <= 1
        /\ IF Deciding = {}
           THEN waiter.state = "pending" /\ waiter.settles = 0
           ELSE LET first == waiter.got[Least(Deciding)] IN
                IF first.kind = "timer"
                THEN /\ waiter.state = "rejected"
                     /\ waiter.value = "The runner timed out."
                     /\ waiter.settles = 1
                ELSE /\ waiter.state = "resolved"
                     /\ waiter.value = (IF first.ok THEN "true" ELSE "false")
                     /\ waiter.timer \in {"none", "cleared"}
                     /\ waiter.settles = 1

\* a scoped exit came first and was ignored, the timer fired, and an exit of
\* the channel came after it
C36_Witness ==
    /\ Len(waiter.got) = 3
    /\ waiter.got[1] = [kind |-> "cmd", state |-> 0, session |-> 1, ok |-> TRUE]
    /\ waiter.got[2] = TimerCame
    /\ waiter.got[3] = [kind |-> "cmd", state |-> 0, session |-> 0, ok |-> TRUE]
    /\ waiter.state = "rejected"

\* channel(svc, name) asks for the channel with the instance name n, or for
\* the service n with no instance name
Names(svc, name, n) == name = n \/ (name = NoName /\ svc = n)

\* the handle opened last by a call that Names n
LastOpened(n) ==
    fx[Greatest({p \in 1..Len(fx) :
                    fx[p].type = "opened" /\ Names(fx[p].what, fx[p].name, n)})].h

\* C37: the registry files a handle under the instance name alone when one is
\* given and under the service otherwise: once channel(serviceA, n) has
\* opened a handle, a call of channel(serviceB, n), for any serviceB, or of
\* channel(n) with no instance name sends no openChannel request and returns
\* at once the handle opened for n (the one opened last, if overlapping calls
\* had opened more than one)
C37_KeyIsNameElseService ==
    [][\A n \in ChannelNames \ {NoName} :
          (\E p \in 1..Len(fx) : fx[p].type = "opened" /\ fx[p].name = n) =>
             /\ \A t \in Tasks :
                   (tasks[t].pc = "idle" /\ tasks'[t].pc = "awaitChan")
                      => ~Names(tasks'[t].svc, tasks'[t].name, n)
             /\ \A q \in (Len(fx) + 1)..Len(fx') :
                   fx'[q].type = "openChannel" => ~Names(fx'[q].what, fx'[q].name, n)
             /\ (/\ calls' = calls + 1
                 /\ tasks' = tasks
                 /\ last'.op = "channel"
                 /\ Names(last'.svc, last'.name, n))
                    => fx' = fx /\ last'.res = RetH(LastOpened(n))
      ]_vars

\* channel('gcsfiles', 'files') opened a handle, and channel('files') then
\* returned it
C37_Witness ==
    /\ last.op = "channel" /\ last.res.kind = "return"
    /\ last.svc = "files" /\ last.name = NoName
    /\ \E p \in 1..Len(fx) :
          /\ fx[p] = OpenedFx(last.res.h, "gcsfiles", "files")
          /\ \A q \in 1..Len(fx) : fx[q].type = "opened" => q = p
    /\ Len(returned["files"]) = 2

\* C38: close() / disconnect() changes only the connected flag: the channel
\* registry with its chan0, the persisting flag and the cached user and repl
\* are as they were, so persisting, once true, stays true over close() and
\* over a later connect()
C38_CloseChangesConnectedOnly ==
    [][/\ client'.close = client.close + 1 =>
             /\ ~connected'
             /\ <<constructed, token, ignore, user, repl, channels, persisting>>'
                   = <<constructed, token, ignore, user, repl, channels, persisting>>
       /\ persisting => persisting'
      ]_vars

\* the session persisted, was closed and was connected again, with no second
\* persist(): persisting is still true and gcsfiles is still in the registry
C38_Witness ==
    /\ persisting
    /\ connected
    /\ client.close = 1
    /\ client.open = 2
    /\ last = Settled(0, "connect", Ret("void"))
    /\ channels["gcsfiles"] # 0
    /\ Len(SelectSeq(fx, LAMBDA e : e.type = "request")) = 1

\* C39: once connect() has handed the transport its open callback, its promise
\* is never rejected: a callback without a channel and an unrecoverable error
\* leave it pending and leave connected as it was; it leaves the handshake
\* only by resolving, in the step in which a channel is delivered
C39_HandshakeNeverRejects ==
    [][/\ \A t \in Tasks :
             tasks[t].pc = "awaitOpen" =>
                \/ tasks'[t] = tasks[t]
                \/ /\ tasks'[t].pc = "idle"
                   /\ last' = Settled(t, "connect", Ret("void"))
                   /\ connected'
                   /\ channels'["chan0"] = nextH
                   /\ nextH' = nextH + 1
       /\ (~connected /\ connected') =>
             \E t \in Tasks : tasks[t].pc = "awaitOpen" /\ tasks'[t].pc = "idle"
      ]_vars

\* the transport has reported an unrecoverable error and connect() is still
\* pending on a session that is not connected
C39_Witness ==
    /\ uncaught = 1
    /\ ~connected
    /\ \E t \in Tasks : tasks[t].pc = "awaitOpen"
    /\ last = Settled(0, "new", Ret("client"))

\* listener i was handed the echo of its command in this step
EchoSeen(i) ==
    /\ i <= Len(listeners)
    /\ Len(listeners') = Len(listeners)
    /\ listeners[i].op \in {"execShell", "execInterp"}
    /\ Len(listeners'[i].seen) = Len(listeners[i].seen) + 1
    /\ listeners'[i].seen[Len(listeners'[i].seen)].output = Command \o <<CR, LF>>

\* C40: in execShell and execInterp every output chunk equal to the command
\* text followed by \r\n is dropped, at whatever position of the stream it
\* comes: the buffer, the prompt counter and the promise are as they were, and
\* a hint the same event carries is not appended either
C40_EchoDroppedAnywhere ==
    [][\A i \in 1..MaxDrivers :
          EchoSeen(i) =>
             /\ listeners'[i].content = listeners[i].content
             /\ listeners'[i].count = listeners[i].count
             /\ listeners'[i].state = listeners[i].state
      ]_vars

\* output came first, then the echo with a hint in the same event: the buffer
\* holds the output only
C40_Witness ==
    \E i \in 1..Len(listeners) :
        /\ listeners[i].op = "execShell"
        /\ listeners[i].seen = <<OutputEvent(OutChunk),
                                 [output |-> EchoChunk, hint |-> HintText]>>
        /\ listeners[i].content = OutChunk

====
